---- MODULE Spec2Model ----
(***************************************************************************)
(* Model of the dynamic execution core of js-visualizer:                   *)
(*   EventLoopSimulator  (call stack, task queue, microtask queue, console,*)
(*                        logical clock),                                  *)
(*   BuiltinHandlers     (the simulated Promise state machine),            *)
(*   ASTInterpreter      (interpret / runEventLoop / executeClosure).      *)
(* A program is a sequence of top-level statements; each statement form    *)
(* the interpreter supports is one action of the synchronous phase, the    *)
(* steps of runEventLoop are the actions of the asynchronous phase.        *)
(***************************************************************************)
EXTENDS Integers, Sequences, FiniteSets

----------------------------------------------------------------------------
(* Bounds of the model *)

\* number of top-level statements of the interpreted program
MaxStmts == 3

\* largest setTimeout delay a program uses
MaxDelay == 1

\* number of top-level statements of the programs of SpecBody
MaxBody == 5

\* largest number of items handed to Promise.all and Promise.race
MaxItems == 2

(* Program constants *)

\* const maxLoops = 100 in runEventLoop
maxLoops == 100

----------------------------------------------------------------------------
(* Runtime values: undefined, a primitive (string) value, or a reference to *)
(* a SimulatedPromise (the index of the promise in creation order).         *)

Undef == [k |-> "u", s |-> "undefined", i |-> 0]

V(s) == [k |-> "v", s |-> s, i |-> 0]

P(i) == [k |-> "p", s |-> "", i |-> i]

\* a reference to an array (the index of the array in creation order)
Arr(i) == [k |-> "a", s |-> "", i |-> i]

\* a number; s is String(i)
Digits == <<"0", "1", "2", "3", "4", "5", "6", "7", "8", "9">>

RECURSIVE NumStr(_)
NumStr(i) ==
  IF i < 0 THEN "-" \o NumStr(-i)
  ELSE IF i < 10 THEN Digits[i + 1]
  ELSE NumStr(i \div 10) \o Digits[(i % 10) + 1]

Num(i) == [k |-> "n", s |-> NumStr(i), i |-> i]

NaN == [k |-> "n", s |-> "NaN", i |-> 0]

Bool(b) == [k |-> "b", s |-> IF b THEN "true" ELSE "false", i |-> 0]

\* the truthiness of a value of the model
truthy(value) ==
  CASE value.k = "b" -> value.s = "true"
    [] value.k = "n" -> value.s # "NaN" /\ value.i # 0
    [] value.k = "v" -> value.s # ""
    [] value.k = "u" -> FALSE
    [] OTHER -> TRUE

\* a reference to a Closure (the index of the closure in creation order)
Fun(i) == [k |-> "f", s |-> "[Function]", i |-> i]

isSimulatedPromise(value) == value.k = "p"

(* Closures.  A closure is identified by the shape of its function node:    *)
(*   log        () => console.log(val)                                      *)
(*   logArg     v => console.log(v)                                         *)
(*   exprResolve  () => Promise.resolve(val)        (expression body)       *)
(*   retResolve   () => { return Promise.resolve(val); }                    *)
(*   retVal     () => { return val; }     (val may be a promise variable)   *)
(*   throw      () => { throw val; }                                        *)
(*   resolve    () => res(val)   res = resolve function of promise tgt      *)
(*   reject     () => rej(val)   rej = reject function of promise tgt       *)
(*   queueMicro () => queueMicrotask(() => console.log(val))                *)
(*   timeout    () => setTimeout(() => console.log(val), tgt)               *)
(*   resolveLater (res, rej) => setTimeout(() => res(val), tgt)             *)
(*   rejectLater  (res, rej) => setTimeout(() => rej(val), tgt)             *)
(*   none       no closure (argument omitted)                               *)
(* The placeholder closures of the internal handlers have functionNode null *)
(* and are identified by their name; val and tgt hold what the handler's    *)
(* JavaScript closure captured (the item index, the combinator call).       *)
Closure(kind, val, tgt) == [kind |-> kind, val |-> val, tgt |-> tgt]

NoClosure == Closure("none", Undef, 0)

\* the placeholder closure of an adoption handler (functionNode: null)
UnwrapClosure == Closure("__promise_unwrap__", Undef, 0)

\* the placeholder closures of the handlers of Promise.all call c
AllFulfilClosure(c, index) == Closure("__promiseAll__", Num(index), c)

AllRejectClosure(c) == Closure("__promiseAll_reject__", Undef, c)

\* the placeholder closures of the handlers of Promise.race call c, and of
\* the microtask it schedules for the already fulfilled promise p
RaceFulfilledClosure(c) == Closure("__promiseRace_fulfilled__", Undef, c)

RaceRejectedClosure(c) == Closure("__promiseRace_rejected__", Undef, c)

RaceResolveClosure(c, p) == Closure("__promiseRace_resolve__", P(p), c)

\* whether the closure has a function node (the placeholders have null)
hasFunctionNode(cb) ==
  cb.kind \notin {"__promise_unwrap__", "__promiseAll__",
                  "__promiseAll_reject__", "__promiseRace_fulfilled__",
                  "__promiseRace_rejected__", "__promiseRace_resolve__"}

\* the TypeError the JavaScript runtime raises inside the interpreter
TypeError == [k |-> "e", s |-> "TypeError", i |-> 0]

\* isThrownError(e): e is a value thrown by the interpreted program
isThrownError(e) == e.k # "e"

----------------------------------------------------------------------------
VARIABLES
  taskQueue,       \* EventLoopSimulator.taskQueue
  microtaskQueue,  \* EventLoopSimulator.microtaskQueue
  consoleOutput,   \* EventLoopSimulator.consoleOutput (the messages)
  currentTime,     \* EventLoopSimulator.currentTime
  promises,        \* BuiltinHandlers.promises, in creation order
  resolvers,       \* promises whose resolve/reject functions exist
  hasReturned,     \* ASTInterpreter.hasReturned
  pc,              \* position of interpret(): sync, loopTop, drain, done, error
  loopCount,       \* loopCount of runEventLoop
  stmtCount,       \* number of top-level statements evaluated
  scheduled,       \* history: every ScheduledTask created, by id
  executed,        \* history: ids of the tasks whose callback was run, in order
  thenCalls,       \* history: the then()/catch() calls made
  arrays,          \* the arrays created, in creation order
  combos,          \* the Promise.all/race calls made: their captured variables
  scopes,          \* ExecutionContext: every Scope created, in creation order
  currentScope,    \* ExecutionContext.currentScope (index into scopes)
  closures,        \* ExecutionContext.closures, in creation order
  returnValue,     \* ASTInterpreter.returnValue
  runtimeError,    \* the RuntimeError that ended interpret(), or "none"
  lexical,         \* history: the scope the evaluated code is written in
  reads,           \* history: the variable lookups made by getVariable
  writes,          \* history: the assignments made by setVariable
  outcomes,        \* history: what each top-level statement did
  steps,           \* ASTInterpreter.steps (kept only if keepSteps)
  stepCount,       \* ASTInterpreter.stepCount
  keepSteps,       \* whether the specification observes the list of steps
  callStack,       \* EventLoopSimulator.callStack (indices into frames)
  frames,          \* every StackFrame created, in creation order
  loopCounters,    \* ASTInterpreter.loopCounters
  config,          \* ASTInterpreter.config
  engine,          \* the DynamicExecutionEngine playing recorded steps back
  page,            \* the Visualizer page: its engines and displayed state
  body             \* the statements of the program evaluated so far (SpecBody)

vars == <<taskQueue, microtaskQueue, consoleOutput, currentTime, promises,
          resolvers, hasReturned, pc, loopCount, stmtCount, scheduled,
          executed, thenCalls, arrays, combos, scopes, currentScope, closures,
          returnValue, runtimeError, lexical, reads, writes, outcomes, steps,
          stepCount, keepSteps, callStack, frames, loopCounters, config,
          engine, page, body>>

\* the state of the interpreter and of the program it runs
interpreterVars ==
  <<taskQueue, microtaskQueue, consoleOutput, currentTime, promises,
    resolvers, hasReturned, pc, loopCount, stmtCount, scheduled,
    executed, thenCalls, arrays, combos, scopes, currentScope, closures,
    returnValue, runtimeError, lexical, reads, writes, outcomes, steps,
    stepCount, keepSteps, callStack, frames, loopCounters, config, body>>

----------------------------------------------------------------------------
(* The mutable state the builtins and the interpreter work on, as one      *)
(* record, so that the operators below can be composed the way the code    *)
(* calls them.                                                             *)

Machine ==
  [taskQueue |-> taskQueue, microtaskQueue |-> microtaskQueue,
   consoleOutput |-> consoleOutput, currentTime |-> currentTime,
   promises |-> promises, resolvers |-> resolvers,
   hasReturned |-> hasReturned, scheduled |-> scheduled,
   thenCalls |-> thenCalls, arrays |-> arrays, combos |-> combos,
   scopes |-> scopes, currentScope |-> currentScope, closures |-> closures,
   returnValue |-> returnValue, error |-> runtimeError, lexical |-> lexical,
   reads |-> reads, writes |-> writes, outcomes |-> outcomes,
   steps |-> steps, stepCount |-> stepCount, keepSteps |-> keepSteps,
   callStack |-> callStack, frames |-> frames,
   loopCounters |-> loopCounters, config |-> config,
   val |-> Undef, thrown |-> Undef, nesting |-> 0, random |-> 0]

\* the machine m becomes the state
Commit(m) ==
  /\ engine' = engine
  /\ page' = page
  /\ taskQueue' = m.taskQueue
  /\ microtaskQueue' = m.microtaskQueue
  /\ consoleOutput' = m.consoleOutput
  /\ currentTime' = m.currentTime
  /\ promises' = m.promises
  /\ resolvers' = m.resolvers
  /\ hasReturned' = m.hasReturned
  /\ scheduled' = m.scheduled
  /\ thenCalls' = m.thenCalls
  /\ arrays' = m.arrays
  /\ combos' = m.combos
  /\ scopes' = m.scopes
  /\ currentScope' = m.currentScope
  /\ closures' = m.closures
  /\ returnValue' = m.returnValue
  /\ runtimeError' = m.error
  /\ lexical' = m.lexical
  /\ reads' = m.reads
  /\ writes' = m.writes
  /\ outcomes' = m.outcomes
  /\ steps' = m.steps
  /\ stepCount' = m.stepCount
  /\ keepSteps' = m.keepSteps
  /\ callStack' = m.callStack
  /\ frames' = m.frames
  /\ loopCounters' = m.loopCounters
  /\ config' = m.config

\* the same, with m evaluated once: for the handlers that run statements of
\* the program
CommitOnce(m) == \E v \in {m} : Commit(v)

\* the same after callback has been run: a closure of the program runs
\* statements
CommitAfter(callback, m) ==
  IF callback.kind = "ast" THEN CommitOnce(m) ELSE Commit(m)

----------------------------------------------------------------------------
(* EventLoopSimulator *)

\* due time used by the comparator of scheduleTask: createdAt + (delay || 0)
DueTime(t) == t.createdAt + t.delay

\* insert t into the stably sorted sequence q behind every element that does
\* not compare greater (Array.prototype.sort is stable)
RECURSIVE InsertSorted(_, _)
\* InsertSorted with a comparator that puts t before the elements it ties with
InsertSortedUnstable(q, t) ==
  IF q = <<>> THEN <<t>>
  ELSE IF DueTime(Head(q)) - DueTime(t) < 0
       THEN <<Head(q)>> \o InsertSorted(Tail(q), t)
       ELSE <<t>> \o q

InsertSorted(q, t) ==
  IF q = <<>> THEN <<t>>
  ELSE IF DueTime(Head(q)) - DueTime(t) <= 0
       THEN <<Head(q)>> \o InsertSorted(Tail(q), t)
       ELSE <<t>> \o q

\* taskQueue.sort((a, b) => aTime - bTime): stable insertion sort
RECURSIVE SortTasks(_)
SortTasks(q) ==
  IF q = <<>> THEN <<>>
  ELSE InsertSorted(SortTasks(SubSeq(q, 1, Len(q) - 1)), q[Len(q)])

NewTask(m, type, callback, source, delay, chainedPromise, resolvedValue) ==
  [id |-> Len(m.scheduled) + 1, type |-> type, callback |-> callback,
   source |-> source, delay |-> delay, createdAt |-> m.currentTime,
   chainedPromise |-> chainedPromise, resolvedValue |-> resolvedValue]

scheduleTask(m, callback, source, delay) ==
  LET t == NewTask(m, "task", callback, source, delay, 0, Undef)
  IN [m EXCEPT !.taskQueue = SortTasks(Append(m.taskQueue, t)),
               !.scheduled = Append(m.scheduled, t)]

\* scheduleMicrotask pushing onto the task queue
scheduleMicrotaskAsTask(m, callback, source, chainedPromise, resolvedValue) ==
  LET t == NewTask(m, "microtask", callback, source, 0, chainedPromise,
                   resolvedValue)
  IN [m EXCEPT !.taskQueue = Append(m.taskQueue, t),
               !.scheduled = Append(m.scheduled, t)]

scheduleMicrotask(m, callback, source, chainedPromise, resolvedValue) ==
  LET t == NewTask(m, "microtask", callback, source, 0, chainedPromise,
                   resolvedValue)
  IN [m EXCEPT !.microtaskQueue = Append(m.microtaskQueue, t),
               !.scheduled = Append(m.scheduled, t)]

\* popMicrotask taking the newest element (pop() for shift())
popMicrotaskNewest(q) == [item |-> q[Len(q)], rest |-> SubSeq(q, 1, Len(q) - 1)]

\* microtaskQueue.shift(): the element returned and the queue left
popMicrotask(q) == [item |-> Head(q), rest |-> Tail(q)]

\* taskQueue.shift(): the element returned and the queue left
popTask(q) == [item |-> Head(q), rest |-> Tail(q)]

\* isMicrotaskQueueEmpty that is off by one
isMicrotaskQueueEmptyOffByOne(q) == Len(q) <= 1

isMicrotaskQueueEmpty(q) == Len(q) = 0

isTaskQueueEmpty(q) == Len(q) = 0

hasPendingTasks(tq, mq) == ~isTaskQueueEmpty(tq) \/ ~isMicrotaskQueueEmpty(mq)

addConsoleLog(m, message) ==
  [m EXCEPT !.consoleOutput = Append(m.consoleOutput, message)]

advanceTime(m, ms) == [m EXCEPT !.currentTime = m.currentTime + ms]

----------------------------------------------------------------------------
(* BuiltinHandlers *)

\* BuiltinHandlers.stringify, for the values of the model (arrays of the
\* model have fewer than 10 elements); joinItems is items.join(", ")
RECURSIVE stringify(_, _)
RECURSIVE joinItems(_, _)
stringify(m, value) ==
  IF isSimulatedPromise(value)
  THEN CASE m.promises[value.i].state = "pending" -> "Promise { <pending> }"
         [] m.promises[value.i].state = "fulfilled" -> "Promise { <fulfilled> }"
         [] OTHER -> "Promise { <rejected> }"
  ELSE IF value.k = "a"
  THEN "[" \o joinItems(m, m.arrays[value.i]) \o "]"
  ELSE value.s

joinItems(m, items) ==
  IF items = <<>> THEN ""
  ELSE IF Len(items) = 1 THEN stringify(m, items[1])
  ELSE stringify(m, Head(items)) \o ", " \o joinItems(m, Tail(items))

consoleLog(m, value) == addConsoleLog(m, stringify(m, value))

\* a SimulatedPromise; fulfilledWith is a history field, the value the
\* promise had when its state became fulfilled
NewPromiseRecord(state, value, reason) ==
  [state |-> state, value |-> value, reason |-> reason,
   onFulfilled |-> <<>>, onRejected |-> <<>>, fulfilledWith |-> value]

\* Promise.resolve(value) for a non-promise value: a new fulfilled promise
promiseResolve(m, value) ==
  [m EXCEPT !.promises = Append(m.promises,
                                NewPromiseRecord("fulfilled", value, Undef))]

\* Promise.reject(reason): a new rejected promise
promiseReject(m, reason) ==
  [m EXCEPT !.promises = Append(m.promises,
                                NewPromiseRecord("rejected", Undef, reason))]

Handler(callback, chainedPromise, internalHandler) ==
  [callback |-> callback, chainedPromise |-> chainedPromise,
   internalHandler |-> internalHandler]

\* rejectPromise: settle, then one microtask per onRejected handler
RECURSIVE ScheduleRejected(_, _, _)
ScheduleRejected(m, handlers, reason) ==
  IF handlers = <<>> THEN m
  ELSE ScheduleRejected(
         scheduleMicrotask(m, Head(handlers).callback, "Promise.catch",
                           Head(handlers).chainedPromise, reason),
         Tail(handlers), reason)

\* rejectPromise that settles without scheduling the handlers
rejectPromiseSilent(m, p, reason) ==
  IF m.promises[p].state # "pending" THEN m
  ELSE [m EXCEPT !.promises[p].state = "rejected",
                 !.promises[p].reason = reason]

rejectPromise(m, p, reason) ==
  IF m.promises[p].state # "pending" THEN m
  ELSE ScheduleRejected(
         [m EXCEPT !.promises[p].state = "rejected",
                   !.promises[p].reason = reason],
         m.promises[p].onRejected, reason)

\* the reject function createPromise hands to the executor: the microtasks
\* it schedules carry no resolvedValue
RECURSIVE ScheduleRejectedNoValue(_, _)
ScheduleRejectedNoValue(m, handlers) ==
  IF handlers = <<>> THEN m
  ELSE ScheduleRejectedNoValue(
         scheduleMicrotask(m, Head(handlers).callback, "Promise.catch",
                           Head(handlers).chainedPromise, Undef),
         Tail(handlers))

\* executorReject without the guard that the promise is still pending
executorRejectUnguarded(m, p, reason) ==
  ScheduleRejectedNoValue(
    [m EXCEPT !.promises[p].state = "rejected",
              !.promises[p].reason = reason],
    m.promises[p].onRejected)

executorReject(m, p, reason) ==
  IF m.promises[p].state # "pending" THEN m
  ELSE ScheduleRejectedNoValue(
         [m EXCEPT !.promises[p].state = "rejected",
                   !.promises[p].reason = reason],
         m.promises[p].onRejected)

\* resolvePromise with promise unwrapping; FireFulfilled is its handler loop,
\* callInternalHandler the call handler.internalHandler(value)
RECURSIVE resolvePromise(_, _, _)
RECURSIVE FireFulfilled(_, _, _)
RECURSIVE callInternalHandler(_, _, _)
resolvePromise(m, p, value) ==
  IF m.promises[p].state # "pending" THEN m
  ELSE IF isSimulatedPromise(value)
  THEN CASE m.promises[value.i].state = "fulfilled" ->
              resolvePromise(m, p, m.promises[value.i].value)
         [] m.promises[value.i].state = "pending" ->
              [m EXCEPT !.promises[value.i].onFulfilled =
                          Append(@, Handler(UnwrapClosure, p, "unwrap"))]
         [] OTHER -> rejectPromise(m, p, m.promises[value.i].reason)
  ELSE FireFulfilled(
         [m EXCEPT !.promises[p].state = "fulfilled",
                   !.promises[p].value = value,
                   !.promises[p].fulfilledWith = value],
         m.promises[p].onFulfilled, value)

FireFulfilled(m, handlers, value) ==
  IF handlers = <<>> THEN m
  ELSE LET h == Head(handlers)
       IN IF h.internalHandler # "none"
          THEN FireFulfilled(callInternalHandler(m, h, value),
                             Tail(handlers), value)
          ELSE FireFulfilled(
                 scheduleMicrotask(m, h.callback, "Promise.then",
                                   h.chainedPromise, value),
                 Tail(handlers), value)

\* checkAllResolved of Promise.all call c
checkAllResolved(m, c) ==
  IF m.combos[c].resolvedCount = Len(m.combos[c].items) /\ ~m.combos[c].settled
  THEN resolvePromise([m EXCEPT !.combos[c].settled = TRUE],
                      m.combos[c].result, Arr(m.combos[c].results))
  ELSE m

callInternalHandler(m, h, value) ==
  LET c == h.callback.tgt
  IN CASE h.internalHandler = "unwrap" ->
            resolvePromise(m, h.chainedPromise, value)
       [] h.internalHandler = "allFulfil" ->
            IF m.combos[c].settled THEN m
            ELSE checkAllResolved(
                   [m EXCEPT
                      !.arrays[m.combos[c].results][h.callback.val.i] = value,
                      !.combos[c].resolvedCount = @ + 1],
                   c)
       [] h.internalHandler = "raceFulfil" ->
            IF m.combos[c].settled THEN m
            ELSE resolvePromise([m EXCEPT !.combos[c].settled = TRUE],
                                m.combos[c].result, value)
       [] OTHER -> m

\* the resolve function createPromise hands to the executor
executorResolve(m, p, value) == resolvePromise(m, p, value)

ThenCall(src, onFulfilled, onRejected, result) ==
  [src |-> src, onFulfilled |-> onFulfilled, onRejected |-> onRejected,
   result |-> result]

\* promiseThen(promise, onFulfilled, onRejected); the new promise is the last
\* one of the result's promises
promiseThen(m, p, onFulfilled, onRejected) ==
  LET n == Len(m.promises) + 1
      m1 == [m EXCEPT !.promises = Append(m.promises,
                                     NewPromiseRecord("pending", Undef, Undef)),
                      !.thenCalls = Append(m.thenCalls,
                                     ThenCall(p, onFulfilled, onRejected, n))]
      st == m.promises[p].state
  IN IF st = "fulfilled"
     THEN IF onFulfilled.kind # "none"
          THEN scheduleMicrotask(m1, onFulfilled, "Promise.then", n,
                                 m.promises[p].value)
          ELSE resolvePromise(m1, n, m.promises[p].value)
     ELSE IF st = "rejected"
     THEN IF onRejected.kind # "none"
          THEN scheduleMicrotask(m1, onRejected, "Promise.catch", n,
                                 m.promises[p].reason)
          ELSE m1
     ELSE LET m2 == IF onFulfilled.kind # "none"
                    THEN [m1 EXCEPT !.promises[p].onFulfilled =
                            Append(@, Handler(onFulfilled, n, "none"))]
                    ELSE m1
          IN IF onRejected.kind # "none"
             THEN [m2 EXCEPT !.promises[p].onRejected =
                     Append(@, Handler(onRejected, n, "none"))]
             ELSE m2

promiseCatch(m, p, onRejected) == promiseThen(m, p, NoClosure, onRejected)

\* the state of the promise an item stands for (a plain value is wrapped in
\* a fulfilled promise)
itemState(m, item) ==
  IF isSimulatedPromise(item) THEN m.promises[item.i].state ELSE "fulfilled"

\* the variables a Promise.all/race call captures for its handlers: the
\* result promise, items, the results array, resolvedCount and settled;
\* atCall is a history field, the states of the items when the call was made
Combo(m, kind, result, items, results) ==
  [kind |-> kind, result |-> result, items |-> items, results |-> results,
   resolvedCount |-> 0, settled |-> FALSE,
   atCall |-> [i \in DOMAIN items |-> itemState(m, items[i])]]

\* the body of items.forEach in promiseAll, for the items from index on
RECURSIVE allItems(_, _, _)
allItems(m, c, index) ==
  IF index > Len(m.combos[c].items) THEN m
  ELSE
    LET item == m.combos[c].items[index]
        m1 == IF isSimulatedPromise(item) THEN m ELSE promiseResolve(m, item)
        p == IF isSimulatedPromise(item) THEN item.i ELSE Len(m1.promises)
        st == m1.promises[p].state
        m2 ==
          CASE st = "fulfilled" ->
                 [m1 EXCEPT
                    !.arrays[m1.combos[c].results][index] = m1.promises[p].value,
                    !.combos[c].resolvedCount = @ + 1]
            [] st = "rejected" /\ ~m1.combos[c].settled ->
                 rejectPromise([m1 EXCEPT !.combos[c].settled = TRUE],
                               m1.combos[c].result, m1.promises[p].reason)
            [] st = "pending" ->
                 [m1 EXCEPT
                    !.promises[p].onFulfilled =
                       Append(@, Handler(AllFulfilClosure(c, index), 0,
                                         "allFulfil")),
                    !.promises[p].onRejected =
                       Append(@, Handler(AllRejectClosure(c),
                                         m1.combos[c].result, "allReject"))]
            [] OTHER -> m1
    IN allItems(m2, c, index + 1)

\* promiseAll(items); the call is the last of the result's combos
promiseAll(m, items) ==
  LET n == Len(m.promises) + 1
      a == Len(m.arrays) + 1
      c == Len(m.combos) + 1
  IN IF Len(items) = 0
     THEN [promiseResolve([m EXCEPT !.arrays = Append(m.arrays, <<>>)], Arr(a))
             EXCEPT !.combos = Append(m.combos, Combo(m, "all", n, items, a))]
     ELSE checkAllResolved(
            allItems(
              [m EXCEPT
                 !.promises = Append(m.promises,
                                     NewPromiseRecord("pending", Undef, Undef)),
                 !.arrays = Append(m.arrays,
                                   [i \in 1..Len(items) |-> Undef]),
                 !.combos = Append(m.combos, Combo(m, "all", n, items, a))],
              c, 1),
            c)

\* the loop over items in promiseRace, for the items from index on
RECURSIVE raceItems(_, _, _)
raceItems(m, c, index) ==
  IF index > Len(m.combos[c].items) THEN m
  ELSE
    LET item == m.combos[c].items[index]
        m1 == IF isSimulatedPromise(item) THEN m ELSE promiseResolve(m, item)
        p == IF isSimulatedPromise(item) THEN item.i ELSE Len(m1.promises)
        st == m1.promises[p].state
    IN CASE st = "fulfilled" /\ ~m1.combos[c].settled ->
              scheduleMicrotask([m1 EXCEPT !.combos[c].settled = TRUE],
                                RaceResolveClosure(c, p), "Promise.race", 0,
                                Undef)
         [] st = "rejected" /\ ~m1.combos[c].settled ->
              rejectPromise([m1 EXCEPT !.combos[c].settled = TRUE],
                            m1.combos[c].result, m1.promises[p].reason)
         [] st = "pending" ->
              raceItems(
                [m1 EXCEPT
                   !.promises[p].onFulfilled =
                      Append(@, Handler(RaceFulfilledClosure(c),
                                        m1.combos[c].result, "raceFulfil")),
                   !.promises[p].onRejected =
                      Append(@, Handler(RaceRejectedClosure(c),
                                        m1.combos[c].result, "raceReject"))],
                c, index + 1)
         [] OTHER -> raceItems(m1, c, index + 1)

\* promiseRace(items); the call is the last of the result's combos
promiseRace(m, items) ==
  raceItems(
    [m EXCEPT
       !.promises = Append(m.promises,
                           NewPromiseRecord("pending", Undef, Undef)),
       !.combos = Append(m.combos,
                         Combo(m, "race", Len(m.promises) + 1, items, 0))],
    Len(m.combos) + 1, 1)

\* the internalCallback of the microtask promiseRace schedules
raceInternalCallback(m, cb) ==
  resolvePromise(m, m.combos[cb.tgt].result, m.promises[cb.val.i].value)

----------------------------------------------------------------------------
(* ExecutionContext: the scope chain.  A Scope is identified by its index   *)
(* in creation order; parent = 0 stands for null.  variables maps every     *)
(* identifier to its VariableBinding, kind "none" standing for an absent    *)
(* entry.  lexParent is a history field: the scope that encloses this one   *)
(* in the program text.                                                     *)

Identifiers == {"x", "y", "g", "h", "fn", "outer"}

\* the loop statements of a program, by source position
LoopIds == {"while_1", "for_1", "while_2"}

NoBinding == [kind |-> "none", value |-> Undef, initialized |-> FALSE]

Binding(kind, value, initialized) ==
  [kind |-> kind, value |-> value, initialized |-> initialized]

Scope(type, parent, lexParent) ==
  [type |-> type, parent |-> parent, lexParent |-> lexParent,
   variables |-> [n \in Identifiers |-> NoBinding]]

GlobalScope == 1

\* throw new RuntimeError(...): interpret() catches it and stops
Throw(m, error) == [m EXCEPT !.error = error]

enterScope(m, type) ==
  [m EXCEPT !.scopes = Append(@, Scope(type, m.currentScope, m.lexical)),
            !.currentScope = Len(m.scopes) + 1,
            !.lexical = Len(m.scopes) + 1]

exitScope(m) ==
  IF m.scopes[m.currentScope].parent # 0
  THEN [m EXCEPT !.currentScope = m.scopes[m.currentScope].parent]
  ELSE m

\* the scope holding the binding of name that the walk from scope finds,
\* or 0 for null
RECURSIVE findBinding(_, _, _)
findBinding(m, scope, name) ==
  IF scope = 0 THEN 0
  ELSE IF m.scopes[scope].variables[name].kind # "none" THEN scope
  ELSE findBinding(m, m.scopes[scope].parent, name)

RECURSIVE getFunctionScope(_, _)
getFunctionScope(m, scope) ==
  IF m.scopes[scope].type = "block" /\ m.scopes[scope].parent # 0
  THEN getFunctionScope(m, m.scopes[scope].parent)
  ELSE scope

declareVariable(m, name, kind) ==
  LET targetScope == IF kind = "var"
                     THEN getFunctionScope(m, m.currentScope)
                     ELSE m.currentScope
  IN IF kind # "var" /\ m.scopes[targetScope].variables[name].kind # "none"
     THEN Throw(m, "AlreadyDeclared")
     ELSE [m EXCEPT !.scopes[targetScope].variables[name] =
                       Binding(kind, Undef, FALSE)]

initializeVariable(m, name, value) ==
  LET binding == findBinding(m, m.currentScope, name)
  IN IF binding = 0
     THEN Throw(m, "NotDefined")
     ELSE [m EXCEPT !.scopes[binding].variables[name].value = value,
                    !.scopes[binding].variables[name].initialized = TRUE]

\* history of an assignment: the binding found, the scope that was
\* current, whether the binding was an initialized const, the error raised
\* and the global binding afterwards
Assignment(m, after, name, value) ==
  LET binding == findBinding(m, m.currentScope, name)
  IN [name |-> name, value |-> value, found |-> binding,
      scope |-> m.currentScope,
      toConst |-> /\ binding # 0
                  /\ m.scopes[binding].variables[name].kind = "const"
                  /\ m.scopes[binding].variables[name].initialized,
      error |-> after.error,
      global |-> after.scopes[GlobalScope].variables[name]]

setVariableLocal(m, name, value) ==
  LET binding == findBinding(m, m.currentScope, name)
      after ==
        IF binding = 0
        THEN [m EXCEPT !.scopes[m.currentScope].variables[name] =
                          Binding("var", value, TRUE)]
        ELSE IF /\ m.scopes[binding].variables[name].kind = "const"
                /\ m.scopes[binding].variables[name].initialized
        THEN Throw(m, "ConstReassignment")
        ELSE [m EXCEPT !.scopes[binding].variables[name].value = value,
                       !.scopes[binding].variables[name].initialized = TRUE]
  IN [after EXCEPT !.writes = Append(@, Assignment(m, after, name, value))]

setVariable(m, name, value) ==
  LET binding == findBinding(m, m.currentScope, name)
      after ==
        IF binding = 0
        THEN [m EXCEPT !.scopes[GlobalScope].variables[name] =
                          Binding("var", value, TRUE)]
        ELSE IF /\ m.scopes[binding].variables[name].kind = "const"
                /\ m.scopes[binding].variables[name].initialized
        THEN Throw(m, "ConstReassignment")
        ELSE [m EXCEPT !.scopes[binding].variables[name].value = value,
                       !.scopes[binding].variables[name].initialized = TRUE]
  IN [after EXCEPT !.writes = Append(@, Assignment(m, after, name, value))]

(* History of a lookup.  The lexical chain of a scope follows lexParent.    *)
(* expected is the scope whose binding the program text designates; the     *)
(* name is free when that scope is outside the function being executed.     *)

RECURSIVE lexicalBinding(_, _, _)
lexicalBinding(m, scope, name) ==
  IF scope = 0 THEN 0
  ELSE IF m.scopes[scope].variables[name].kind # "none" THEN scope
  ELSE lexicalBinding(m, m.scopes[scope].lexParent, name)

RECURSIVE lexicalFunctionScope(_, _)
lexicalFunctionScope(m, scope) ==
  IF m.scopes[scope].type = "block" /\ m.scopes[scope].lexParent # 0
  THEN lexicalFunctionScope(m, m.scopes[scope].lexParent)
  ELSE scope

RECURSIVE localScopes(_, _)
localScopes(m, scope) ==
  IF m.scopes[scope].type = "block" /\ m.scopes[scope].lexParent # 0
  THEN {scope} \cup localScopes(m, m.scopes[scope].lexParent)
  ELSE {scope}

Lookup(m, name, binding) ==
  LET expected == lexicalBinding(m, m.lexical, name)
      function == lexicalFunctionScope(m, m.lexical)
  IN [name |-> name, found |-> binding, expected |-> expected,
      inFunction |-> m.scopes[function].type = "function",
      free |-> expected \notin localScopes(m, m.lexical),
      value |-> IF binding = 0 THEN Undef
                ELSE m.scopes[binding].variables[name].value,
      error |-> IF binding = 0 THEN "NotDefined"
                ELSE IF /\ ~m.scopes[binding].variables[name].initialized
                        /\ m.scopes[binding].variables[name].kind # "var"
                THEN "TDZ" ELSE "none"]

\* getVariable leaves the value read in m.val
getVariable(m, name) ==
  LET binding == findBinding(m, m.currentScope, name)
      m1 == [m EXCEPT !.reads = Append(@, Lookup(m, name, binding))]
  IN IF binding = 0
     THEN Throw(m1, "NotDefined")
     ELSE IF /\ ~m.scopes[binding].variables[name].initialized
             /\ m.scopes[binding].variables[name].kind # "var"
     THEN Throw(m1, "TDZ")
     ELSE [m1 EXCEPT !.val = m.scopes[binding].variables[name].value]

\* a Closure; lexicalScope is a history field, the scope the function
\* expression is written in, and so is resultPromise: for the continuation
\* of an async function, the promise its call returned (0 for the other
\* closures).  createClosure leaves the closure in m.val
createClosure(m, functionNode) ==
  [m EXCEPT !.closures = Append(@, [functionNode |-> functionNode,
                                    capturedScope |-> m.currentScope,
                                    lexicalScope |-> m.lexical,
                                    resultPromise |-> 0]),
            !.val = Fun(Len(m.closures) + 1)]

enterClosureScope(m, closure) ==
  enterScope([m EXCEPT !.currentScope = closure.capturedScope,
                       !.lexical = closure.lexicalScope],
             "function")


(* Steps.  A StackFrame lives in frames (creation order) and the call stack *)
(* holds indices into it: getSnapshot copies the array of the call stack,   *)
(* not the frames.  frozen is a history field of a step: the frames of its  *)
(* call stack as they were when the step was recorded.                      *)

\* the variables of a frame: the set of its name-value entries
NoVariables == {}

\* serializeValue, for the values of the model: a closure is an object
serializeValue(value) ==
  IF value.k = "f" THEN V("[Object]")
  ELSE IF value.k = "p" THEN V("[Promise]")
  ELSE value

getVariablesSnapshot(m) ==
  {[name |-> n,
    value |-> serializeValue(m.scopes[m.currentScope].variables[n].value)] :
     n \in {i \in Identifiers :
              m.scopes[m.currentScope].variables[i].initialized}}

pushToCallStack(m, functionName, variables) ==
  [m EXCEPT !.frames = Append(@, [functionName |-> functionName,
                                  variables |-> variables]),
            !.callStack = Append(@, Len(m.frames) + 1)]

popFromCallStack(m) ==
  LET top == m.callStack[Len(m.callStack)]
  IN IF m.callStack = <<>> THEN m
     ELSE [m EXCEPT !.callStack = SubSeq(@, 1, Len(@) - 1),
                    \* a popped frame stays reachable only from the steps
                    !.frames = IF ~m.keepSteps /\ top = Len(@)
                               THEN SubSeq(@, 1, Len(@) - 1) ELSE @]

getCallStackDepth(m) == Len(m.callStack)

\* a QueueItem is made of fields a ScheduledTask never changes (id, type,
\* source, delay, createdAt): it is represented by the id of its task
taskToQueueItem(task) == task.id

getSnapshot(m, description) ==
  [callStack |-> m.callStack,
   taskQueue |-> [k \in DOMAIN m.taskQueue |-> taskToQueueItem(m.taskQueue[k])],
   microtaskQueue |-> [k \in DOMAIN m.microtaskQueue |->
                         taskToQueueItem(m.microtaskQueue[k])],
   consoleOutput |-> m.consoleOutput,
   description |-> description,
   frozen |-> [k \in DOMAIN m.callStack |->
                 m.frames[m.callStack[k]].variables]]

\* this.steps.push(snapshot): the specifications that observe nothing of
\* the steps but their number do not keep the list
pushStep(m, snapshot) ==
  IF m.keepSteps THEN [m EXCEPT !.steps = Append(@, snapshot)] ELSE m

\* the variables of the top frame are replaced in place, then the snapshot
\* is pushed
recordStep(m, description) ==
  LET m1 == IF m.callStack = <<>> THEN m
            ELSE [m EXCEPT !.frames[m.callStack[Len(m.callStack)]].variables =
                              getVariablesSnapshot(m)]
  IN [pushStep(m1, getSnapshot(m1, description))
        EXCEPT !.stepCount = @ + 1]

\* the errors that are instances of Error; a user-thrown value (ThrownError)
\* is a plain object
isError(error) == error \notin {"none", "Thrown"}

ExecutionLimitErrors ==
  {"ExecutionLimit: steps", "ExecutionLimit: loop", "ExecutionLimit: stack",
   "ExecutionLimit: event loop"}

\* a catch that returns the steps as they are
catchErrorSilent(m, error) == [m EXCEPT !.error = error]

\* the catch of interpret(): if (error instanceof Error) the terminal step
\* is pushed
catchError(m, error) ==
  IF isError(error)
  THEN [pushStep(m, getSnapshot(m, "error: " \o error)) EXCEPT !.error = error]
  ELSE [m EXCEPT !.error = error]

----------------------------------------------------------------------------
(* ASTInterpreter.executeClosure: run closure cb with argument arg.  The    *)
(* result holds the machine afterwards, the value executeClosure returns    *)
(* (this.returnValue) and whether a ThrownError escaped.                    *)

\* ASTInterpreter.stringify, for the values of the model
describe(value) ==
  IF value.k = "v" THEN "\"" \o value.s \o "\""
  ELSE IF value.k = "p" THEN "Promise"
  ELSE value.s

\* the kind of an error object: a ThrownError, or the name of an Error
errorKind(error) == IF error.k = "e" THEN error.s ELSE "Thrown"

Outcome(m, result, thrown, error) ==
  [m |-> m, returnValue |-> result, thrown |-> thrown, error |-> error]

RECURSIVE executeClosureBody(_, _)

\* the outcome of running a closure of the program: m.error is what the body
\* threw, a user-thrown value (in m.thrown) or an Error
OutcomeOfBody(m) ==
  CASE m.error = "none" -> Outcome(m, m.val, FALSE, Undef)
    [] m.error = "Thrown" ->
         Outcome([m EXCEPT !.error = "none"], Undef, TRUE, m.thrown)
    [] OTHER ->
         Outcome([m EXCEPT !.error = "none"], Undef, TRUE,
                 [k |-> "e", s |-> m.error, i |-> 0])

executeClosure(m, cb, arg) ==
  LET m0 == [m EXCEPT !.hasReturned = FALSE]
  IN CASE ~hasFunctionNode(cb) ->
            \* funcNode.params of a null function node
            Outcome(m, Undef, TRUE, TypeError)
       [] cb.kind = "ast" ->
            \* a closure made from a function of the program
            OutcomeOfBody(executeClosureBody(m, m.closures[cb.val.i]))
       [] cb.kind = "log" ->
            Outcome(recordStep(consoleLog(m0, cb.val), "console.log() call"),
                    Undef, FALSE, Undef)
       [] cb.kind = "logArg" ->
            Outcome(recordStep(consoleLog(m0, arg), "console.log() call"),
                    Undef, FALSE, Undef)
       [] cb.kind = "exprResolve" ->
            \* the value of an expression body is not stored in returnValue
            Outcome(promiseResolve(m0, cb.val), Undef, FALSE, Undef)
       [] cb.kind = "retResolve" ->
            Outcome(recordStep([promiseResolve(m0, cb.val)
                                  EXCEPT !.hasReturned = TRUE],
                               "return Promise"),
                    P(Len(m0.promises) + 1), FALSE, Undef)
       [] cb.kind = "retVal" ->
            Outcome(recordStep([m0 EXCEPT !.hasReturned = TRUE],
                               "return " \o describe(cb.val)),
                    cb.val, FALSE, Undef)
       [] cb.kind = "throw" ->
            Outcome(recordStep(m0, "throw " \o describe(cb.val)),
                    Undef, TRUE, cb.val)
       [] cb.kind = "resolve" ->
            Outcome(executorResolve(m0, cb.tgt, cb.val), Undef, FALSE, Undef)
       [] cb.kind = "reject" ->
            Outcome(executorReject(m0, cb.tgt, cb.val), Undef, FALSE, Undef)
       [] cb.kind = "resolveLater" ->
            \* (res, rej) => setTimeout(() => res(val), tgt)
            Outcome(recordStep(scheduleTask(m0, Closure("resolve", cb.val,
                                                        arg.i),
                                            "setTimeout", cb.tgt),
                               "setTimeout() registered"),
                    Undef, FALSE, Undef)
       [] cb.kind = "rejectLater" ->
            \* (res, rej) => setTimeout(() => rej(val), tgt)
            Outcome(recordStep(scheduleTask(m0, Closure("reject", cb.val,
                                                        arg.i),
                                            "setTimeout", cb.tgt),
                               "setTimeout() registered"),
                    Undef, FALSE, Undef)
       [] cb.kind = "queueMicro" ->
            Outcome(recordStep(scheduleMicrotask(m0, Closure("log", cb.val, 0),
                                                 "queueMicrotask", 0, Undef),
                               "queueMicrotask() registered"),
                    Undef, FALSE, Undef)
       [] cb.kind = "timeout" ->
            Outcome(recordStep(scheduleTask(m0, Closure("log", cb.val, 0),
                                            "setTimeout", cb.tgt),
                               "setTimeout() registered"),
                    Undef, FALSE, Undef)
       [] OTHER ->
            \* () => {}
            Outcome(m0, Undef, FALSE, Undef)

----------------------------------------------------------------------------
(* ASTInterpreter: the evaluation of statements and expressions.  A node of *)
(* the syntax tree is a record: op is its type, kind the declaration kind   *)
(* or the operator, name the identifier it names, val a literal's value,    *)
(* body its child nodes.  Every operator returns the machine afterwards,    *)
(* with the value of the expression in val.  A thrown RuntimeError is the   *)
(* field error; nothing is evaluated after it.                              *)

Node(op, kind, name, val, children) ==
  [op |-> op, kind |-> kind, name |-> name, val |-> val, body |-> children]

Literal(val) == Node("Literal", "", "", val, <<>>)
Identifier(name) == Node("Identifier", "", name, Undef, <<>>)
\* function () { statements }
FunctionExpression(statements) == Node("FunctionExpression", "", "", Undef, statements)
\* name()
CallExpression(name) == Node("CallExpression", "Identifier", name, Undef, <<>>)
\* (function () { statements })()
CallFunctionExpression(statements) ==
  Node("CallExpression", "FunctionExpression", "", Undef, statements)
\* name++
UpdateExpression(name) == Node("UpdateExpression", "++", name, Undef, <<>>)
\* name = right, name += right
AssignmentExpression(operator, name, right) ==
  Node("AssignmentExpression", operator, name, Undef, <<right>>)
\* console.log(argument)
ConsoleLogCall(argument) == Node("ConsoleLog", "", "", Undef, <<argument>>)
\* kind name = init;
VariableDeclaration(kind, name, init) ==
  Node("VariableDeclaration", kind, name, Undef, <<init>>)
\* function name() { statements }
FunctionDeclaration(name, statements) ==
  Node("FunctionDeclaration", "", name, Undef, statements)
\* return argument;
ReturnStatement(argument) == Node("ReturnStatement", "", "", Undef, <<argument>>)
\* left < right
BinaryExpression(operator, left, right) ==
  Node("BinaryExpression", operator, "", Undef, <<left, right>>)
\* while (test) statement, the statement that starts at the position in loopId
WhileStatement(loopId, test, statement) ==
  Node("WhileStatement", "", loopId, Undef, <<test, statement>>)
\* for (init; test; update) statement
ForStatement(loopId, init, test, update, statement) ==
  Node("ForStatement", "", loopId, Undef, <<test, statement, update, init>>)
\* if (test) consequent
IfStatement(test, consequent) ==
  Node("IfStatement", "", "", Undef, <<test, consequent>>)
\* setTimeout(callback, delay), an expression
SetTimeoutCall(callback, delay) ==
  Node("SetTimeout", "", "", Num(delay), <<callback>>)
\* queueMicrotask(callback)
QueueMicrotaskCall(callback) ==
  Node("QueueMicrotask", "", "", Undef, <<callback>>)
\* async function name() { statements }
AsyncFunctionDeclaration(name, statements) ==
  Node("FunctionDeclaration", "async ", name, Undef, statements)
\* await argument; (an expression statement)
AwaitStatement(argument) == Node("AwaitStatement", "", "", Undef, <<argument>>)
\* Promise.resolve()
PromiseResolveCall == Node("PromiseResolve", "", "", Undef, <<>>)
\* throw argument;
ThrowStatement(argument) == Node("ThrowStatement", "", "", Undef, <<argument>>)
\* new Promise(executor)
NewExpression(executor) == Node("NewExpression", "Promise", "", Undef, <<executor>>)
\* { statements }
BlockStatement(statements) == Node("BlockStatement", "", "", Undef, statements)
\* try { block } catch (param) { handler } finally { finalizer }, of the
\* kinds "catch", "finally" and "catch finally"
TryStatement(kind, block, param, handler, finalizer) ==
  Node("TryStatement", kind, param, Undef,
       <<BlockStatement(block), BlockStatement(handler),
         BlockStatement(finalizer)>>)

\* the + of evaluateAssignmentExpression and evaluateUpdateExpression
plus(a, b) ==
  IF a.k = "n" /\ b.k = "n"
  THEN IF a.s = "NaN" \/ b.s = "NaN" THEN NaN ELSE Num(a.i + b.i)
  ELSE IF (a.k = "u" /\ b.k = "n") \/ (a.k = "n" /\ b.k = "u") THEN NaN
  ELSE V(a.s \o b.s)

\* the largest limit of a configuration
MaxLimit == 2

\* the number of nested executeClosure calls the stack of the host has room
\* for: more than any configured depth of the call stack
HostStack == MaxLimit + 2

\* the < of evaluateBinaryExpression
lessThan(a, b) ==
  Bool(a.k = "n" /\ b.k = "n" /\ a.s # "NaN" /\ b.s # "NaN" /\ a.i < b.i)

checkStepLimit(m) ==
  IF m.stepCount >= m.config.maxSteps
  THEN Throw(m, "ExecutionLimit: steps")
  ELSE m

checkLoopLimit(m, loopId) ==
  LET count == m.loopCounters[loopId] + 1
      m1 == [m EXCEPT !.loopCounters[loopId] = count]
  IN IF count > m.config.maxLoopIterations
     THEN Throw(m1, "ExecutionLimit: loop")
     ELSE m1

RECURSIVE evaluateNode(_, _)
RECURSIVE runLoop(_, _)
RECURSIVE evaluateStatements(_, _)
RECURSIVE evaluateBlockStatement(_, _)
RECURSIVE evaluateVariableDeclaration(_, _)
RECURSIVE evaluateCallExpression(_, _)
RECURSIVE evaluateMemberCall(_, _)
RECURSIVE evaluateAssignmentExpression(_, _)
RECURSIVE evaluateReturnStatement(_, _)
RECURSIVE callUserFunction(_, _, _)
RECURSIVE evaluateTryStatement(_, _)
RECURSIVE evaluateNewExpression(_, _)

\* Sequencing.  Once(v, F) is F(v) with v evaluated a single time; AndThen(v, F)
\* is the same for a machine v, and is v itself if an error was thrown
\* (nothing is evaluated after a throw).
Once(v, F(_)) == CHOOSE r \in {F(x) : x \in {v}} : TRUE

AndThen(v, F(_)) ==
  CHOOSE r \in {IF x.error # "none" THEN x ELSE F(x) : x \in {v}} : TRUE

\* the loop of evaluateProgram and evaluateBlockStatement
evaluateStatements(m, statements) ==
  IF statements = <<>> THEN m
  ELSE AndThen(evaluateNode(m, Head(statements)),
            LAMBDA m1 : IF m1.hasReturned THEN m1
                        ELSE evaluateStatements(m1, Tail(statements)))

evaluateBlockStatement(m, node) ==
  AndThen(evaluateStatements(enterScope(m, "block"), node.body),
       LAMBDA m1 : [exitScope(m1) EXCEPT !.lexical = m.lexical, !.val = Undef])

evaluateVariableDeclaration(m, node) ==
  AndThen(declareVariable(m, node.name, node.kind),
       LAMBDA m1 :
         AndThen(evaluateNode(m1, node.body[1]),
              LAMBDA m2 :
                [recordStep(initializeVariable(m2, node.name, m2.val),
                            "declare " \o node.kind \o " " \o node.name
                              \o " = " \o describe(m2.val))
                   EXCEPT !.val = Undef]))

evaluateFunctionDeclaration(m, node) ==
  LET m1 == createClosure(m, node)
      m2 == declareVariable(m1, node.name, "var")
  IN [recordStep(initializeVariable(m2, node.name, m1.val),
                 "function " \o node.kind \o node.name \o "()")
        EXCEPT !.val = Undef]

evaluateFunctionExpression(m, node) == createClosure(m, node)

evaluateIdentifier(m, node) == getVariable(m, node.name)

\* await argument, evaluated as an expression: no suspension, the value of
\* a fulfilled promise or undefined
evaluateAwaitExpression(m, node) ==
  AndThen(evaluateNode(m, node.body[1]),
       LAMBDA m1 :
         IF m1.val.k = "p"
         THEN [recordStep(m1, "await")
                 EXCEPT !.val = IF m1.promises[m1.val.i].state = "fulfilled"
                                THEN m1.promises[m1.val.i].value
                                ELSE Undef]
         ELSE m1)

\* the loop of executeAsyncFunctionBody: at a statement `await argument;`
\* the statements left become the body of a continuation closure that
\* captures the current scope and is registered by promiseThen on the
\* awaited promise, and the function returns resultPromise
RECURSIVE asyncStatements(_, _, _)
asyncStatements(m, statements, resultPromise) ==
  IF statements = <<>> THEN [m EXCEPT !.val = P(resultPromise)]
  ELSE IF Head(statements).op = "AwaitStatement"
  THEN AndThen(evaluateNode(m, Head(statements).body[1]),
            LAMBDA m1 :
              LET m2 == recordStep(m1, "await")
                  continuation ==
                    [functionNode |-> FunctionExpression(Tail(statements)),
                     capturedScope |-> m2.currentScope,
                     lexicalScope |-> m2.lexical,
                     resultPromise |-> resultPromise]
                  m3 == [m2 EXCEPT !.closures = Append(@, continuation)]
              IN [(IF Tail(statements) # <<>> /\ m1.val.k = "p"
                   THEN promiseThen(m3, m1.val.i,
                                    Closure("ast", Fun(Len(m3.closures)), 0),
                                    NoClosure)
                   ELSE m2)
                    EXCEPT !.val = P(resultPromise)])
  ELSE AndThen(evaluateNode(m, Head(statements)),
            LAMBDA m1 :
              IF m1.hasReturned THEN [m1 EXCEPT !.val = P(resultPromise)]
              ELSE asyncStatements(m1, Tail(statements), resultPromise))

executeAsyncFunctionBody(m, statements) ==
  asyncStatements(promiseResolve(m, Undef), statements, Len(m.promises) + 1)

\* executeClosure for a closure made from a function of the program (one
\* without parameters): the body of an async function is run by
\* executeAsyncFunctionBody and its promise is the result
executeClosureBody(m, closure) ==
  \* the stack of the host is exhausted: a RangeError of the host
  IF m.nesting >= HostStack THEN Throw(m, "RangeError")
  ELSE AndThen(IF closure.functionNode.kind = "async "
               THEN executeAsyncFunctionBody(
                      [enterClosureScope(m, closure)
                         EXCEPT !.hasReturned = FALSE,
                                !.returnValue = Undef,
                                !.nesting = @ + 1],
                      closure.functionNode.body)
               ELSE evaluateNode(
                      [enterClosureScope(m, closure)
                         EXCEPT !.hasReturned = FALSE,
                                !.returnValue = Undef,
                                !.nesting = @ + 1],
                      BlockStatement(closure.functionNode.body)),
            LAMBDA m3 : [exitScope(m3)
                           EXCEPT !.lexical = m.lexical,
                                  !.val = IF closure.functionNode.kind = "async "
                                          THEN m3.val ELSE m3.returnValue,
                                  !.nesting = m.nesting])

callUserFunction(m, closure, name) ==
  IF getCallStackDepth(m) >= m.config.maxCallStackDepth
  THEN Throw(m, "ExecutionLimit: stack")
  ELSE AndThen(executeClosureBody(
              recordStep(pushToCallStack(m, name \o "()",
                                         getVariablesSnapshot(m)),
                         "call " \o name \o "()"),
              closure),
            LAMBDA m2 : [recordStep(popFromCallStack(m2),
                                    "end " \o name \o "()")
                           EXCEPT !.val = m2.val])

evaluateCallExpression(m, node) ==
  IF node.kind = "Identifier"
  THEN AndThen(getVariable(m, node.name),
            LAMBDA m1 :
              IF m1.val.k = "f"
              THEN callUserFunction(m1, m1.closures[m1.val.i], node.name)
              ELSE Throw(m1, "NotAFunction"))
  ELSE AndThen(evaluateNode(m, FunctionExpression(node.body)),
            LAMBDA m1 :
              IF m1.val.k = "f"
              THEN callUserFunction(m1, m1.closures[m1.val.i], "anonymous")
              ELSE [m1 EXCEPT !.val = Undef])

\* console.log(argument)
evaluateMemberCall(m, node) ==
  AndThen(evaluateNode(m, node.body[1]),
       LAMBDA m1 : [recordStep(consoleLog(m1, m1.val), "console.log() call")
                      EXCEPT !.val = Undef])

evaluateAssignmentExpression(m, node) ==
  AndThen(evaluateNode(m, node.body[1]),
       LAMBDA m1 :
         IF node.kind = "="
         THEN [setVariable(m1, node.name, m1.val) EXCEPT !.val = m1.val]
         ELSE AndThen(getVariable(m1, node.name),
                   LAMBDA m2 :
                     [setVariable(m2, node.name, plus(m2.val, m1.val))
                        EXCEPT !.val = plus(m2.val, m1.val)]))

evaluateUpdateExpression(m, node) ==
  AndThen(getVariable(m, node.name),
       LAMBDA m1 : [setVariable(m1, node.name, plus(m1.val, Num(1)))
                      EXCEPT !.val = m1.val])

evaluateReturnStatement(m, node) ==
  AndThen(evaluateNode(m, node.body[1]),
       LAMBDA m1 :
         recordStep([m1 EXCEPT !.returnValue = m1.val, !.hasReturned = TRUE],
                    "return " \o describe(m1.val)))

\* handleSetTimeout: the value is Math.floor(Math.random() * 1000000)
handleSetTimeout(m, node) ==
  AndThen(evaluateNode(m, node.body[1]),
       LAMBDA m1 :
         [(IF m1.val.k = "f"
           THEN recordStep(scheduleTask(m1, Closure("ast", m1.val, 0),
                                        "setTimeout", node.val.i),
                           "setTimeout() registered")
           ELSE m1)
            EXCEPT !.val = Num(m.random)])

handleQueueMicrotask(m, node) ==
  AndThen(evaluateNode(m, node.body[1]),
       LAMBDA m1 :
         [(IF m1.val.k = "f"
           THEN recordStep(scheduleMicrotask(m1, Closure("ast", m1.val, 0),
                                             "queueMicrotask", 0, Undef),
                           "queueMicrotask() registered")
           ELSE m1)
            EXCEPT !.val = Undef])

evaluateThrowStatement(m, node) ==
  AndThen(evaluateNode(m, node.body[1]),
       LAMBDA m1 : [recordStep(m1, "throw " \o describe(m1.val))
                      EXCEPT !.error = "Thrown", !.thrown = m1.val])

\* the catch clause of a try statement, entered with the caught value
catchClause(m, node, caughtError) ==
  LET m1 == enterScope(recordStep(m, "catch block"), "block")
      m2 == IF node.name # ""
            THEN initializeVariable(declareVariable(m1, node.name, "let"),
                                    node.name, caughtError)
            ELSE m1
  IN AndThen(m2, LAMBDA m3 :
       AndThen(evaluateNode(m3, node.body[2]),
            LAMBDA m4 : [exitScope(m4) EXCEPT !.lexical = m.lexical]))

\* the finally clause, and the throw that follows it if the value thrown in
\* the try block was not handled
finallyClause(m, node, pending, caughtError) ==
  AndThen(IF node.kind \in {"finally", "catch finally"}
       THEN evaluateNode(recordStep(m, "finally block"), node.body[3])
       ELSE m,
       LAMBDA m3 :
         IF pending
         THEN [m3 EXCEPT !.error = "Thrown", !.thrown = caughtError]
         ELSE [m3 EXCEPT !.val = Undef])

\* a try statement that catches whatever its block throws
evaluateTryStatementCatchAll(m, node) ==
  Once(evaluateNode(recordStep(m, "try block"), node.body[1]),
       LAMBDA m1 :
         LET hasError == m1.error # "none"
             hasHandler == node.kind \in {"catch", "catch finally"}
             caughtError == IF m1.error = "Thrown" THEN m1.thrown
                            ELSE V(m1.error)
             caught == [m1 EXCEPT !.error = "none", !.thrown = Undef,
                                  !.nesting = m.nesting]
         IN IF hasError /\ hasHandler
            THEN AndThen(catchClause(caught, node, caughtError),
                      LAMBDA m2 : finallyClause(m2, node, FALSE, Undef))
            ELSE finallyClause(caught, node, hasError, caughtError))

evaluateTryStatement(m, node) ==
  Once(evaluateNode(recordStep(m, "try block"), node.body[1]),
       LAMBDA m1 :
         LET hasError == m1.error = "Thrown"
             hasHandler == node.kind \in {"catch", "catch finally"}
             caught == [m1 EXCEPT !.error = "none", !.thrown = Undef,
                                  !.nesting = m.nesting]
         IN \* an error of the interpreter is thrown again at once
            IF m1.error \notin {"none", "Thrown"} THEN m1
            ELSE IF hasError /\ hasHandler
            THEN AndThen(catchClause(caught, node, m1.thrown),
                      LAMBDA m2 : finallyClause(m2, node, FALSE, Undef))
            ELSE finallyClause(caught, node, hasError, m1.thrown))

\* new Promise(executor): createPromise, then the executor is run by
\* executeClosure, with resolve and reject as arguments (no function of the
\* programs here names its parameters)
evaluateNewExpression(m, node) ==
  AndThen(evaluateNode(m, node.body[1]),
       LAMBDA m1 :
         IF m1.val.k # "f" THEN Throw(m1, "UnsupportedConstructor")
         ELSE AndThen(executeClosureBody(
                     [m1 EXCEPT !.promises =
                                  Append(@, NewPromiseRecord("pending", Undef,
                                                             Undef)),
                                !.resolvers = @ \cup {Len(m1.promises) + 1}],
                     m1.closures[m1.val.i]),
                   LAMBDA m3 :
                     [m3 EXCEPT !.promises[Len(m1.promises) + 1].value = Undef,
                                !.val = P(Len(m1.promises) + 1)]))

evaluateBinaryExpression(m, node) ==
  AndThen(evaluateNode(m, node.body[1]),
       LAMBDA m1 :
         AndThen(evaluateNode(m1, node.body[2]),
              LAMBDA m2 : [m2 EXCEPT !.val = lessThan(m1.val, m2.val)]))

evaluateIfStatement(m, node) ==
  AndThen(evaluateNode(m, node.body[1]),
       LAMBDA m1 : IF truthy(m1.val) THEN evaluateNode(m1, node.body[2])
                   ELSE [m1 EXCEPT !.val = Undef])

\* what evaluateForStatement and evaluateWhileStatement do before their
\* while (true)
loopEnter(m, node) ==
  IF node.op = "ForStatement"
  THEN evaluateNode([enterScope(m, "block")
                       EXCEPT !.loopCounters[node.name] = 0],
                    node.body[4])
  ELSE [m EXCEPT !.loopCounters[node.name] = 0]

Turn(m, again) == [m |-> m, again |-> again]

\* one turn of the while (true) of a loop statement: the machine after it
\* and whether the loop goes on
loopTurn(m, node) ==
  Once(checkLoopLimit(m, node.name), LAMBDA m1 :
    IF m1.error # "none" THEN Turn(m1, FALSE)
    ELSE Once(evaluateNode(m1, node.body[1]), LAMBDA m2 :
      IF m2.error # "none" \/ ~truthy(m2.val) THEN Turn(m2, FALSE)
      ELSE Once(evaluateNode(m2, node.body[2]), LAMBDA m3 :
        IF m3.error # "none" \/ m3.hasReturned THEN Turn(m3, FALSE)
        ELSE IF node.op = "ForStatement"
        THEN Once(evaluateNode(m3, node.body[3]),
                  LAMBDA m4 : Turn(m4, m4.error = "none"))
        ELSE Turn(m3, TRUE))))

\* what the loop statements do after their while (true)
loopExit(m, node) ==
  IF m.error # "none" THEN m
  ELSE IF node.op = "ForStatement" THEN [exitScope(m) EXCEPT !.val = Undef]
  ELSE [m EXCEPT !.val = Undef]

runLoop(m, node) ==
  Once(loopTurn(m, node),
       LAMBDA turn : IF turn.again THEN runLoop(turn.m, node)
                     ELSE loopExit(turn.m, node))

evaluateLoopStatement(m, node) ==
  AndThen(loopEnter(m, node), LAMBDA m1 : runLoop(m1, node))

\* the switch of evaluateNode, after checkStepLimit and the test of
\* hasReturned
evaluateNodeOfType(m, node) ==
  CASE node.op = "Literal" -> [m EXCEPT !.val = node.val]
    [] node.op = "Identifier" -> evaluateIdentifier(m, node)
    [] node.op = "FunctionExpression" -> evaluateFunctionExpression(m, node)
    [] node.op = "CallExpression" -> evaluateCallExpression(m, node)
    [] node.op = "ConsoleLog" -> evaluateMemberCall(m, node)
    [] node.op = "UpdateExpression" -> evaluateUpdateExpression(m, node)
    [] node.op = "AssignmentExpression" ->
         evaluateAssignmentExpression(m, node)
    [] node.op = "VariableDeclaration" -> evaluateVariableDeclaration(m, node)
    [] node.op = "FunctionDeclaration" -> evaluateFunctionDeclaration(m, node)
    [] node.op = "ReturnStatement" -> evaluateReturnStatement(m, node)
    [] node.op = "BlockStatement" -> evaluateBlockStatement(m, node)
    [] node.op = "BinaryExpression" -> evaluateBinaryExpression(m, node)
    [] node.op = "IfStatement" -> evaluateIfStatement(m, node)
    [] node.op = "SetTimeout" -> handleSetTimeout(m, node)
    [] node.op = "QueueMicrotask" -> handleQueueMicrotask(m, node)
    [] node.op = "ThrowStatement" -> evaluateThrowStatement(m, node)
    [] node.op = "TryStatement" -> evaluateTryStatement(m, node)
    [] node.op = "NewExpression" -> evaluateNewExpression(m, node)
    [] node.op = "AwaitStatement" -> evaluateAwaitExpression(m, node)
    [] node.op = "PromiseResolve" ->
         [recordStep(promiseResolve(m, Undef), "Promise.resolve() call")
            EXCEPT !.val = P(Len(m.promises) + 1)]
    [] node.op \in {"ForStatement", "WhileStatement"} ->
         evaluateLoopStatement(m, node)

evaluateNode(m, node) ==
  AndThen(checkStepLimit(m),
       LAMBDA m0 : IF m0.hasReturned THEN [m0 EXCEPT !.val = m0.returnValue]
                   ELSE evaluateNodeOfType(m0, node))

----------------------------------------------------------------------------
(* The synchronous phase: interpret() evaluates the program's statements in *)
(* order (evaluateProgram).  Each action evaluates one statement.           *)

CanEvaluate == pc = "sync" /\ ~hasReturned

StmtDone ==
  /\ stmtCount' = stmtCount + 1
  /\ UNCHANGED <<pc, loopCount, executed>>

\* console.log(value);
ConsoleLog(value) ==
  /\ CanEvaluate
  /\ Commit(recordStep(consoleLog(Machine, value), "console.log() call"))
  /\ StmtDone

\* setTimeout(cb, delay);
SetTimeout(cb, delay) ==
  /\ CanEvaluate
  /\ Commit(recordStep(scheduleTask(Machine, cb, "setTimeout", delay),
                        "setTimeout() registered"))
  /\ StmtDone

\* queueMicrotask(cb);
QueueMicrotask(cb) ==
  /\ CanEvaluate
  /\ Commit(recordStep(scheduleMicrotask(Machine, cb, "queueMicrotask", 0,
                                          Undef),
                        "queueMicrotask() registered"))
  /\ StmtDone

\* const p = Promise.resolve(value);
PromiseResolve(value) ==
  /\ CanEvaluate
  /\ Commit(promiseResolve(Machine, value))
  /\ StmtDone

\* const p = Promise.reject(reason);
PromiseReject(reason) ==
  /\ CanEvaluate
  /\ Commit(promiseReject(Machine, reason))
  /\ StmtDone

\* const p = new Promise(executor);  evaluateNewExpression: createPromise,
\* the executor run synchronously, then promise.value = undefined
NewPromise(executor) ==
  /\ CanEvaluate
  /\ LET n == Len(promises) + 1
         m1 == [Machine EXCEPT
                  !.promises = Append(promises,
                                 NewPromiseRecord("pending", Undef, Undef)),
                  !.resolvers = resolvers \cup {n}]
         out == executeClosure(m1, executor, P(n))
     IN Commit([out.m EXCEPT !.promises[n].value = Undef])
  /\ StmtDone

\* const q = p.then(onFulfilled, onRejected);
Then(p, onFulfilled, onRejected) ==
  /\ CanEvaluate
  /\ p \in DOMAIN promises
  /\ Commit(promiseThen(recordStep(Machine, "Promise.then() registered"),
                         p, onFulfilled, onRejected))
  /\ StmtDone

\* const q = p.catch(onRejected);
Catch(p, onRejected) ==
  /\ CanEvaluate
  /\ p \in DOMAIN promises
  /\ Commit(promiseCatch(recordStep(Machine, "Promise.catch() registered"),
                          p, onRejected))
  /\ StmtDone

\* const q = Promise.all(items);
PromiseAll(items) ==
  /\ CanEvaluate
  /\ Commit(promiseAll(recordStep(Machine, "Promise.all() call"), items))
  /\ StmtDone

\* const q = Promise.race(items);
PromiseRace(items) ==
  /\ CanEvaluate
  /\ Commit(promiseRace(recordStep(Machine, "Promise.race() call"), items))
  /\ StmtDone

\* one statement of the program is evaluated (the body of the loop of
\* evaluateProgram); a RuntimeError ends interpret()
Evaluate(statement) ==
  /\ CanEvaluate
  /\ LET m == evaluateNode(Machine, statement)
         outcome == [error |-> m.error, skipped |-> FALSE,
                     logged |-> SubSeq(m.consoleOutput, Len(consoleOutput) + 1,
                                       Len(m.consoleOutput))]
     IN /\ CommitOnce([catchError(m, m.error)
                     EXCEPT !.outcomes = Append(@, outcome)])
        /\ pc' = IF m.error # "none" THEN "error" ELSE pc
  /\ stmtCount' = stmtCount + 1
  /\ UNCHANGED <<loopCount, executed>>

\* the same with the value r for what Math.random() yields in the statement
EvaluateRandom(statement, r) ==
  /\ CanEvaluate
  /\ LET m == evaluateNode([Machine EXCEPT !.random = r], statement)
         outcome == [error |-> m.error, skipped |-> FALSE,
                     logged |-> SubSeq(m.consoleOutput, Len(consoleOutput) + 1,
                                       Len(m.consoleOutput))]
     IN /\ CommitOnce([catchError(m, m.error)
                     EXCEPT !.outcomes = Append(@, outcome)])
        /\ pc' = IF m.error # "none" THEN "error" ELSE pc
  /\ stmtCount' = stmtCount + 1
  /\ UNCHANGED <<loopCount, executed>>

\* a loop statement of the program is entered: evaluateNode up to the
\* while (true) of evaluateForStatement or evaluateWhileStatement
EnterLoop(statement) ==
  /\ CanEvaluate
  /\ LET m0 == checkStepLimit(Machine)
         m == IF m0.error # "none" THEN m0 ELSE loopEnter(m0, statement)
     IN /\ CommitOnce(catchError(m, m.error))
        /\ pc' = IF m.error # "none" THEN "error" ELSE "loop"
  /\ stmtCount' = stmtCount + 1
  /\ UNCHANGED <<loopCount, executed>>

\* one turn of the while (true) of the loop statement being evaluated,
\* which is the last statement of body
LoopTurn ==
  /\ pc = "loop"
  /\ LET statement == body[Len(body)]
         turn == loopTurn(Machine, statement)
         m == IF turn.again THEN turn.m ELSE loopExit(turn.m, statement)
     IN /\ CommitOnce(catchError(m, m.error))
        /\ pc' = IF m.error # "none" THEN "error"
                 ELSE IF turn.again THEN "loop" ELSE "sync"
  /\ UNCHANGED <<loopCount, stmtCount, executed>>

\* if (this.hasReturned) break: the statements left are not evaluated
BreakProgram ==
  /\ pc = "sync"
  /\ hasReturned
  /\ Commit([Machine EXCEPT !.outcomes =
               Append(@, [error |-> "none", skipped |-> TRUE,
                          logged |-> <<>>])])
  /\ UNCHANGED <<pc, loopCount, stmtCount, executed>>

\* the program has no further statement: interpret() goes on to runEventLoop
EndSync ==
  /\ pc = "sync"
  /\ pc' = "loopTop"
  /\ Commit(recordStep(popFromCallStack(Machine), "sync code done"))
  /\ UNCHANGED <<loopCount, stmtCount, executed>>

----------------------------------------------------------------------------
(* runEventLoop *)

\* while (hasPendingTasks() && loopCount < maxLoops) { loopCount++; ...
LoopIter ==
  /\ pc = "loopTop"
  /\ hasPendingTasks(taskQueue, microtaskQueue) /\ loopCount < maxLoops
  /\ loopCount' = loopCount + 1
  /\ pc' = "drain"
  /\ Commit(Machine)
  /\ UNCHANGED <<stmtCount, executed>>

\* one turn of the inner while loop: pop a microtask, call its
\* internalCallback if it has one, else run its callback and settle the
\* chained promise with the result or the thrown value
RunMicrotask ==
  /\ pc = "drain"
  /\ ~isMicrotaskQueueEmpty(microtaskQueue)
  /\ LET popped == popMicrotask(microtaskQueue)
         microtask == popped.item
         m1 == [Machine EXCEPT !.microtaskQueue = popped.rest]
         m2 == pushToCallStack(
                 recordStep(m1, "microtask run: " \o microtask.source),
                 microtask.source \o " callback", NoVariables)
     IN /\ executed' = Append(executed, microtask.id)
        /\ IF microtask.callback.kind = "__promiseRace_resolve__"
           THEN /\ Commit(raceInternalCallback(m1, microtask.callback))
                /\ pc' = pc
           ELSE \E out \in {executeClosure(m2, microtask.callback,
                                            microtask.resolvedValue)} :
                  LET settled ==
                        IF ~out.thrown
                        THEN IF microtask.chainedPromise # 0
                             THEN resolvePromise(out.m,
                                                 microtask.chainedPromise,
                                                 out.returnValue)
                             ELSE out.m
                        ELSE rejectPromise(out.m, microtask.chainedPromise,
                                           out.error)
                  IN IF \/ ~out.thrown
                        \/ /\ isThrownError(out.error)
                           /\ microtask.chainedPromise # 0
                     THEN /\ CommitAfter(microtask.callback,
                                   recordStep(popFromCallStack(settled),
                                     "microtask done: " \o microtask.source))
                          /\ pc' = pc
                     ELSE /\ CommitAfter(microtask.callback,
                                   catchError(out.m, errorKind(out.error)))
                          /\ pc' = "error"
  /\ UNCHANGED <<loopCount, stmtCount>>

\* the microtask queue is drained: pop one task, advance the clock by its
\* delay and run its callback
RunTask ==
  /\ pc = "drain"
  /\ isMicrotaskQueueEmpty(microtaskQueue)
  /\ ~isTaskQueueEmpty(taskQueue)
  /\ LET popped == popTask(taskQueue)
         task == popped.item
         m1 == advanceTime([Machine EXCEPT !.taskQueue = popped.rest],
                           task.delay)
         m2 == pushToCallStack(recordStep(m1, "task run: " \o task.source),
                               task.source \o " callback", NoVariables)
         out == executeClosure(m2, task.callback, Undef)
     IN /\ executed' = Append(executed, task.id)
        /\ IF out.thrown
           THEN /\ CommitAfter(task.callback,
                            catchError(out.m, errorKind(out.error)))
                /\ pc' = "error"
           ELSE /\ CommitAfter(task.callback,
                            recordStep(popFromCallStack(out.m),
                                       "task done: " \o task.source))
                /\ pc' = "loopTop"
  /\ UNCHANGED <<loopCount, stmtCount>>

\* the microtask queue is drained and no task is queued
NoTask ==
  /\ pc = "drain"
  /\ isMicrotaskQueueEmpty(microtaskQueue)
  /\ isTaskQueueEmpty(taskQueue)
  /\ pc' = "loopTop"
  /\ Commit(Machine)
  /\ UNCHANGED <<loopCount, stmtCount, executed>>

\* the outer loop ends: ExecutionLimitError if loopCount >= maxLoops,
\* otherwise the final step is recorded
LoopExit ==
  /\ pc = "loopTop"
  /\ ~(hasPendingTasks(taskQueue, microtaskQueue) /\ loopCount < maxLoops)
  /\ IF loopCount >= maxLoops
     THEN /\ Commit(catchError(Machine, "ExecutionLimit: event loop"))
          /\ pc' = "error"
     ELSE /\ Commit(recordStep(Machine, "done"))
          /\ pc' = "done"
  /\ UNCHANGED <<loopCount, stmtCount, executed>>

----------------------------------------------------------------------------
DEFAULT_INTERPRETER_CONFIG ==
  [maxSteps |-> 1000, maxCallStackDepth |-> 100, maxLoopIterations |-> 100]

\* a DynamicExecutionEngine as constructed: no steps, no interval; delivered
\* is the history of the steps step() has returned since the last reset or
\* load, result what the last call of step() returned
NewEngine ==
  [steps |-> <<>>, currentStep |-> 0, intervalId |-> 0, timers |-> {},
   parseErrors |-> FALSE, delivered |-> <<>>, result |-> "none"]

\* the Visualizer as mounted: no engine, no debounce timer, the initial
\* executionState; engines holds every DynamicExecutionEngine the page has
\* created, engineRef the index of engineRef.current (0 for null), shown
\* the engine and the step that the displayed state was taken from,
\* debounce the code of the pending debounce timer, if there is one
NewPage ==
  [engines |-> <<>>, engineRef |-> 0, shown |-> [engine |-> 0, step |-> 0],
   isRunning |-> FALSE, isPaused |-> FALSE, speed |-> 500,
   debounce |-> <<>>]

\* the state interpret() starts from (ASTInterpreter.reset), for an
\* interpreter constructed with configuration c; interpret() has pushed the
\* frame of the global code
InitWith(c, keep) ==
  /\ taskQueue = <<>>
  /\ microtaskQueue = <<>>
  /\ consoleOutput = <<>>
  /\ currentTime = 0
  /\ promises = <<>>
  /\ resolvers = {}
  /\ hasReturned = FALSE
  /\ pc = "sync"
  /\ loopCount = 0
  /\ stmtCount = 0
  /\ scheduled = <<>>
  /\ executed = <<>>
  /\ thenCalls = <<>>
  /\ arrays = <<>>
  /\ combos = <<>>
  /\ scopes = <<Scope("global", 0, 0)>>
  /\ currentScope = GlobalScope
  /\ closures = <<>>
  /\ returnValue = Undef
  /\ runtimeError = "none"
  /\ lexical = GlobalScope
  /\ reads = <<>>
  /\ writes = <<>>
  /\ outcomes = <<>>
  /\ steps = <<>>
  /\ stepCount = 0
  /\ keepSteps = keep
  /\ callStack = <<1>>
  /\ frames = <<[functionName |-> "global", variables |-> NoVariables]>>
  /\ loopCounters = [id \in LoopIds |-> 0]
  /\ config = c
  /\ engine = NewEngine
  /\ page = NewPage
  /\ body = <<>>

Init == InitWith(DEFAULT_INTERPRETER_CONFIG, FALSE)

----------------------------------------------------------------------------
(* Programs over promises: every way of creating, chaining and settling     *)
(* promises, with the settle functions called from timer callbacks.         *)

Values == {V("x")}

Reasons == {V("r")}

InnerValues == {V("inner")}

PromiseRefs == {P(i) : i \in DOMAIN promises}

\* closures passed to then()/catch()
HandlerClosures ==
  {Closure("logArg", Undef, 0)}
    \cup {Closure("exprResolve", v, 0) : v \in InnerValues}
    \cup {Closure("retResolve", v, 0) : v \in InnerValues}
    \cup {Closure("retVal", v, 0) : v \in PromiseRefs}
    \cup {Closure("throw", r, 0) : r \in Reasons}

\* executors passed to new Promise(), for the promise created as number n
Executors(n) ==
  {Closure("noop", Undef, n)}
    \cup {Closure("resolve", v, n) : v \in Values \cup PromiseRefs}
    \cup {Closure("reject", r, n) : r \in Reasons}

\* closures that call a resolve or reject function kept from an executor
SettleClosures ==
  {Closure("resolve", v, i) : v \in Values \cup PromiseRefs, i \in resolvers}
    \cup {Closure("reject", r, i) : r \in Reasons, i \in resolvers}

MoreStmts == stmtCount < MaxStmts

Next ==
  \/ MoreStmts /\ \E v \in Values : PromiseResolve(v) /\ body' = body
  \/ MoreStmts /\ \E r \in Reasons : PromiseReject(r) /\ body' = body
  \/ MoreStmts /\ \E e \in Executors(Len(promises) + 1) :
       NewPromise(e) /\ body' = body
  \/ MoreStmts /\ \E p \in DOMAIN promises :
       \E f \in HandlerClosures \cup {NoClosure} :
         \E r \in {NoClosure, Closure("logArg", Undef, 0)} :
           Then(p, f, r) /\ body' = body
  \/ MoreStmts /\ \E p \in DOMAIN promises :
       \E r \in HandlerClosures : Catch(p, r) /\ body' = body
  \/ MoreStmts /\ \E cb \in SettleClosures : SetTimeout(cb, 0) /\ body' = body
  \/ EndSync /\ body' = body
  \/ LoopIter /\ body' = body
  \/ RunMicrotask /\ body' = body
  \/ RunTask /\ body' = body
  \/ NoTask /\ body' = body
  \/ LoopExit /\ body' = body

Spec == Init /\ [][Next]_vars

----------------------------------------------------------------------------
(* Programs over the two queues: timers, queueMicrotask and then-callbacks, *)
(* whose callbacks log or schedule further callbacks.                       *)

LoopClosures ==
  {Closure("log", V("b"), 0), Closure("queueMicro", V("c"), 0)}
    \cup {Closure("timeout", V("b"), d) : d \in 0..MaxDelay}

NextLoop ==
  \/ MoreStmts /\ ConsoleLog(V("a")) /\ body' = body
  \/ MoreStmts /\ \E cb \in LoopClosures : \E d \in 0..MaxDelay :
       SetTimeout(cb, d) /\ body' = body
  \/ MoreStmts /\ \E cb \in LoopClosures : QueueMicrotask(cb) /\ body' = body
  \/ MoreStmts /\ PromiseResolve(Undef) /\ body' = body
  \/ MoreStmts /\ \E p \in DOMAIN promises : \E cb \in LoopClosures :
       Then(p, cb, NoClosure) /\ body' = body
  \/ EndSync /\ body' = body
  \/ LoopIter /\ body' = body
  \/ RunMicrotask /\ body' = body
  \/ RunTask /\ body' = body
  \/ NoTask /\ body' = body
  \/ LoopExit /\ body' = body

SpecLoop == Init /\ [][NextLoop]_vars

----------------------------------------------------------------------------
(* Programs built from the statements of catalog example 3 (Task vs         *)
(* Microtask Basics), with the statements evaluated kept in body.           *)

Stmt(op, val, cb, n) == [op |-> op, val |-> val, cb |-> cb, n |-> n]

MoreBody == Len(body) < MaxBody

NextBody ==
  \/ MoreBody /\ \E l \in {"a", "d"} :
       /\ ConsoleLog(V(l))
       /\ body' = Append(body, Stmt("console.log", V(l), NoClosure, 0))
  \/ MoreBody /\ \E d \in 0..MaxDelay :
       /\ SetTimeout(Closure("log", V("b"), 0), d)
       /\ body' = Append(body, Stmt("setTimeout", Undef,
                                    Closure("log", V("b"), 0), d))
  \/ MoreBody /\ PromiseResolve(Undef)
       /\ body' = Append(body, Stmt("Promise.resolve", Undef, NoClosure, 0))
  \/ MoreBody /\ \E p \in DOMAIN promises :
       /\ Then(p, Closure("log", V("c"), 0), NoClosure)
       /\ body' = Append(body, Stmt("then", Undef,
                                    Closure("log", V("c"), 0), p))
  \/ EndSync /\ body' = body
  \/ LoopIter /\ body' = body
  \/ RunMicrotask /\ body' = body
  \/ RunTask /\ body' = body
  \/ NoTask /\ body' = body
  \/ LoopExit /\ body' = body

SpecBody == Init /\ [][NextBody]_vars

----------------------------------------------------------------------------
(* Programs over the combinators: promises that are fulfilled, rejected or  *)
(* pending and settled by a timer (catalog example 5), handed to            *)
(* Promise.all and Promise.race.                                            *)

CombValues == {V("p1"), V("p2")}

\* executors passed to new Promise()
CombExecutors ==
  {Closure("resolve", v, Len(promises) + 1) : v \in CombValues}
    \cup {Closure("resolveLater", v, d) : v \in CombValues, d \in 0..MaxDelay}
    \cup {Closure("rejectLater", r, d) : r \in Reasons, d \in 0..MaxDelay}

\* the arrays of at most MaxItems promises and plain values
ItemLists ==
  UNION {[1..n -> PromiseRefs \cup {V("v")}] : n \in 0..MaxItems}

NextComb ==
  \/ MoreStmts /\ PromiseResolve(V("p2")) /\ body' = body
  \/ MoreStmts /\ \E r \in Reasons : PromiseReject(r) /\ body' = body
  \/ MoreStmts /\ \E e \in CombExecutors : NewPromise(e) /\ body' = body
  \/ MoreStmts /\ \E items \in ItemLists : PromiseAll(items) /\ body' = body
  \/ MoreStmts /\ \E items \in ItemLists : PromiseRace(items) /\ body' = body
  \/ EndSync /\ body' = body
  \/ LoopIter /\ body' = body
  \/ RunMicrotask /\ body' = body
  \/ RunTask /\ body' = body
  \/ NoTask /\ body' = body
  \/ LoopExit /\ body' = body

SpecComb == Init /\ [][NextComb]_vars

----------------------------------------------------------------------------
(* Programs over functions: declarations, calls, return statements inside   *)
(* nested blocks, and a closure that outlives the call that made it.        *)

\* function outer() { let x = 1; return function() { x++; console.log(x); } }
OuterDeclaration ==
  FunctionDeclaration("outer",
    << VariableDeclaration("let", "x", Literal(Num(1))),
       ReturnStatement(FunctionExpression(
         << UpdateExpression("x"), ConsoleLogCall(Identifier("x")) >>)) >>)

\* function g() { { return 1; } console.log("rest"); }
ReturningDeclaration ==
  FunctionDeclaration("g",
    << BlockStatement(<< ReturnStatement(Literal(Num(1))) >>),
       ConsoleLogCall(Literal(V("rest"))) >>)

\* function h() { console.log("h"); }
PlainDeclaration ==
  FunctionDeclaration("h", << ConsoleLogCall(Literal(V("h"))) >>)

ClosureStatements ==
  { OuterDeclaration,
    VariableDeclaration("const", "fn", CallExpression("outer")),
    CallExpression("fn"),
    ReturningDeclaration,
    CallExpression("g"),
    PlainDeclaration,
    CallExpression("h"),
    ConsoleLogCall(Literal(V("after"))) }

NextClosure ==
  \/ \E statement \in ClosureStatements :
       MoreBody /\ Evaluate(statement) /\ body' = Append(body, statement)
  \/ \E statement \in ClosureStatements :
       MoreBody /\ BreakProgram /\ body' = Append(body, statement)
  \/ EndSync /\ body' = body
  \/ LoopExit /\ body' = body

SpecClosure == Init /\ [][NextClosure]_vars

----------------------------------------------------------------------------
(* Programs over scopes: const, let and var declarations, assignments to    *)
(* bound and unbound names, reads before a declaration, and functions that  *)
(* call other functions.                                                    *)

\* const x = 1;
ConstDeclaration == VariableDeclaration("const", "x", Literal(Num(1)))

\* x = 2;  x += 1;  x++;
ConstWrites ==
  { AssignmentExpression("=", "x", Literal(Num(2))),
    AssignmentExpression("+=", "x", Literal(Num(1))),
    UpdateExpression("x") }

\* function g() {}
EmptyDeclaration == FunctionDeclaration("g", <<>>)

\* (function () { let x = g(); })();
LocalFromCall ==
  CallFunctionExpression(
    << VariableDeclaration("let", "x", CallExpression("g")) >>)

\* { console.log(x); let x = 1; }  and the same with const
DeadZoneProbe(kind) ==
  BlockStatement(<< ConsoleLogCall(Identifier("x")),
                    VariableDeclaration(kind, "x", Literal(Num(1))) >>)

\* (function () { { var y = 1; } console.log(y); })();
VarAfterBlock ==
  CallFunctionExpression(
    << BlockStatement(<< VariableDeclaration("var", "y", Literal(Num(1))) >>),
       ConsoleLogCall(Identifier("y")) >>)

\* (function () { console.log(y); var y = 1; })();
VarBeforeDeclaration ==
  CallFunctionExpression(
    << ConsoleLogCall(Identifier("y")),
       VariableDeclaration("var", "y", Literal(Num(1))) >>)

\* (function () { let x = "def";
\*                h = function () { g(); console.log(x); }; })();
MakeClosure ==
  CallFunctionExpression(
    << VariableDeclaration("let", "x", Literal(V("def"))),
       AssignmentExpression("=", "h",
         FunctionExpression(<< CallExpression("g"),
                               ConsoleLogCall(Identifier("x")) >>)) >>)

\* (function () { { y = "imp"; } })();
ImplicitFromBlock ==
  CallFunctionExpression(
    << BlockStatement(
         << AssignmentExpression("=", "y", Literal(V("imp"))) >>) >>)

\* (function () { console.log(y); })();
ReadInFunction == CallFunctionExpression(<< ConsoleLogCall(Identifier("y")) >>)

ScopeStatements ==
  { ConstDeclaration, EmptyDeclaration, LocalFromCall, DeadZoneProbe("let"),
    DeadZoneProbe("const"), VarAfterBlock, VarBeforeDeclaration, MakeClosure,
    CallExpression("h"), ImplicitFromBlock, ReadInFunction,
    AssignmentExpression("=", "y", Literal(V("top"))),
    ConsoleLogCall(Identifier("x")) } \cup ConstWrites

NextScope ==
  \/ \E statement \in ScopeStatements :
       MoreStmts /\ Evaluate(statement) /\ body' = Append(body, statement)
  \/ EndSync /\ body' = body
  \/ LoopExit /\ body' = body

SpecScope == Init /\ [][NextScope]_vars

----------------------------------------------------------------------------
(* DynamicExecutionEngine: playing back the steps of a loaded program.      *)
(* A step list is a sequence of step names; a window interval is known by   *)
(* its period, which is also its id.                                        *)

MaxTrace == 3

StepNames == {"a", "b"}

Traces == UNION {[1..n -> StepNames] : n \in 0..MaxTrace}

Speeds == {100, 500}

\* stop(): clearInterval of the engine's own interval
stop(e) ==
  IF e.intervalId # 0
  THEN [e EXCEPT !.timers = @ \ {e.intervalId}, !.intervalId = 0]
  ELSE e

\* step(): null once every step has been returned
step(e) ==
  IF e.currentStep >= Len(e.steps)
  THEN [e EXCEPT !.result = "null"]
  ELSE [e EXCEPT !.currentStep = @ + 1,
                 !.delivered = Append(@, e.steps[e.currentStep + 1]),
                 !.result = "state"]

\* loadCode of a source the parser accepts: the steps interpret() returns
LoadCode(trace) ==
  /\ engine' = [engine EXCEPT !.steps = trace, !.currentStep = 0,
                              !.parseErrors = FALSE, !.delivered = <<>>,
                              !.result = "none"]
  /\ UNCHANGED <<interpreterVars, page>>

\* loadCode of a source the parser rejects
LoadCodeFailed ==
  /\ engine' = [engine EXCEPT !.steps = <<>>, !.parseErrors = TRUE,
                              !.delivered = <<>>, !.result = "none"]
  /\ UNCHANGED <<interpreterVars, page>>

EngineReset ==
  /\ engine' = [stop([engine EXCEPT !.currentStep = 0])
                  EXCEPT !.delivered = <<>>, !.result = "none"]
  /\ UNCHANGED <<interpreterVars, page>>

EngineStep ==
  /\ engine' = step(engine)
  /\ UNCHANGED <<interpreterVars, page>>

\* play(speed, onStep), also what a change of speed does while playing
EnginePlay(speed) ==
  /\ engine' = LET e == stop(engine)
               IN [e EXCEPT !.intervalId = speed, !.timers = @ \cup {speed},
                            !.result = "none"]
  /\ UNCHANGED <<interpreterVars, page>>

EngineStop ==
  /\ engine' = [stop(engine) EXCEPT !.result = "none"]
  /\ UNCHANGED <<interpreterVars, page>>

\* executeStep, the callback of a window interval that was not cleared
TimerTick(timer) ==
  /\ timer \in engine.timers
  /\ engine' = LET e == step(engine)
               IN IF e.result = "state"
                  THEN IF e.currentStep >= Len(e.steps) THEN stop(e) ELSE e
                  ELSE stop(e)
  /\ UNCHANGED <<interpreterVars, page>>

NextEngine ==
  \/ \E trace \in Traces : LoadCode(trace)
  \/ LoadCodeFailed
  \/ EngineReset
  \/ EngineStep
  \/ \E speed \in Speeds : EnginePlay(speed)
  \/ EngineStop
  \/ \E timer \in Speeds : TimerTick(timer)

SpecEngine == Init /\ [][NextEngine]_vars

----------------------------------------------------------------------------
(* Programs that run into the limits of the interpreter, throw, or catch:   *)
(* loops, recursion, executors that create promises, try statements and     *)
(* callbacks that throw, interpreted under small configurations with the    *)
(* steps kept.                                                              *)

MaxProgram == 2

FewSteps == 6

\* what Math.floor(Math.random() * 1000000) may yield
TimerIds == {7, 8}

Configs ==
  {[maxSteps |-> s, maxCallStackDepth |-> d, maxLoopIterations |-> d] :
     s \in {FewSteps, DEFAULT_INTERPRETER_CONFIG.maxSteps}, d \in 1..MaxLimit}

InitLimits == \E c \in Configs : InitWith(c, TRUE)

\* function fn() { fn(); }
RecursiveDeclaration == FunctionDeclaration("fn", << CallExpression("fn") >>)

\* function outer() { new Promise(outer); }
ExecutorDeclaration ==
  FunctionDeclaration("outer", << NewExpression(Identifier("outer")) >>)

\* try { fn(); } catch (y) { console.log(y); }
TryCall ==
  TryStatement("catch", << CallExpression("fn") >>, "y",
               << ConsoleLogCall(Identifier("y")) >>, <<>>)

\* try { throw "boom"; } catch (y) { console.log(y); }
TryThrow ==
  TryStatement("catch", << ThrowStatement(Literal(V("boom"))) >>, "y",
               << ConsoleLogCall(Identifier("y")) >>, <<>>)

\* try { console.log(h); } catch (y) { console.log(y); }
TryUndeclared ==
  TryStatement("catch", << ConsoleLogCall(Identifier("h")) >>, "y",
               << ConsoleLogCall(Identifier("y")) >>, <<>>)

\* setTimeout(function () { throw "late"; }, 0);
ThrowingTimer ==
  SetTimeoutCall(FunctionExpression(<< ThrowStatement(Literal(V("late"))) >>), 0)

\* queueMicrotask(function () { throw "micro"; });
ThrowingMicrotask ==
  QueueMicrotaskCall(
    FunctionExpression(<< ThrowStatement(Literal(V("micro"))) >>))

\* setTimeout(function () { console.log(h); }, 0);
UndeclaredTimer ==
  SetTimeoutCall(FunctionExpression(<< ConsoleLogCall(Identifier("h")) >>), 0)

\* const y = setTimeout(function () { console.log("task"); }, 0);
TimerIdDeclaration ==
  VariableDeclaration("const", "y",
    SetTimeoutCall(FunctionExpression(<< ConsoleLogCall(Literal(V("task"))) >>),
                   0))

\* queueMicrotask(function () { console.log("micro"); });
LoggingMicrotask ==
  QueueMicrotaskCall(
    FunctionExpression(<< ConsoleLogCall(Literal(V("micro"))) >>))

\* (function () { return 1; })();
ReturningCall == CallFunctionExpression(<< ReturnStatement(Literal(Num(1))) >>)

LimitStatements ==
  { VariableDeclaration("let", "x", Literal(Num(0))),
    LoggingMicrotask, ReturningCall,
    ReturningDeclaration, RecursiveDeclaration, ExecutorDeclaration,
    CallExpression("fn"), NewExpression(Identifier("outer")),
    ThrowStatement(Literal(V("boom"))),
    TryCall, TryThrow, TryUndeclared,
    ThrowingTimer, ThrowingMicrotask, UndeclaredTimer, TimerIdDeclaration,
    ConsoleLogCall(Identifier("y")) }

\* while (true) { console.log("tick"); }
EndlessLog ==
  WhileStatement("while_1", Literal(Bool(TRUE)),
    BlockStatement(<< ConsoleLogCall(Literal(V("tick"))) >>))

\* while (true) { g(); }
EndlessCall ==
  WhileStatement("while_1", Literal(Bool(TRUE)),
    BlockStatement(<< CallExpression("g") >>))

\* while (true) { while (true) { x++; } }
EndlessNested ==
  WhileStatement("while_1", Literal(Bool(TRUE)),
    BlockStatement(<<
      WhileStatement("while_2", Literal(Bool(TRUE)),
        BlockStatement(<< UpdateExpression("x") >>)) >>))

\* for (let y = 0; y < 2; y++) { console.log(y); }
CountingFor ==
  ForStatement("for_1", VariableDeclaration("let", "y", Literal(Num(0))),
    BinaryExpression("<", Identifier("y"), Literal(Num(2))),
    UpdateExpression("y"),
    BlockStatement(<< ConsoleLogCall(Identifier("y")) >>))

LoopStatements == { EndlessLog, EndlessCall, EndlessNested, CountingFor }

\* a loop statement whose test never becomes false
Endless(statement) ==
  /\ statement.op = "WhileStatement"
  /\ statement.body[1] = Literal(Bool(TRUE))

MoreProgram == Len(body) < MaxProgram

\* a turn of the loop of a program
LoopStep == LoopTurn /\ body' = body

NextLimits ==
  \/ \E statement \in LimitStatements, r \in TimerIds :
       MoreProgram /\ EvaluateRandom(statement, r)
         /\ body' = Append(body, statement)
  \/ \E statement \in LoopStatements :
       MoreProgram /\ EnterLoop(statement) /\ body' = Append(body, statement)
  \/ LoopStep
  \/ \E statement \in LimitStatements \cup LoopStatements :
       MoreProgram /\ BreakProgram /\ body' = Append(body, statement)
  \/ EndSync /\ body' = body
  \/ LoopIter /\ body' = body
  \/ RunMicrotask /\ body' = body
  \/ RunTask /\ body' = body
  \/ NoTask /\ body' = body
  \/ LoopExit /\ body' = body

\* interpret() is one call: a loop that was entered goes on
SpecLimits == InitLimits /\ [][NextLimits]_vars /\ WF_vars(LoopStep)

----------------------------------------------------------------------------
(* Programs whose callbacks re-arm themselves a given number of times,     *)
(* interpreted under the default configuration: the event loop runs up to  *)
(* its ceiling of maxLoops iterations.                                      *)

\* the numbers of callbacks the chains run, around the ceiling
ChainLengths == {maxLoops - 1, maxLoops, maxLoops + 1}

\* function h() { x++; if (x < n) { again; } }
ChainDeclaration(n, again) ==
  FunctionDeclaration("h",
    << UpdateExpression("x"),
       IfStatement(BinaryExpression("<", Identifier("x"), Literal(Num(n))),
                   BlockStatement(<< again >>)) >>)

\* let x = 0; function h() { x++; if (x < n) { setTimeout(h, 0); } }
\* setTimeout(h, 0);
TimerChain(n) ==
  << VariableDeclaration("let", "x", Literal(Num(0))),
     ChainDeclaration(n, SetTimeoutCall(Identifier("h"), 0)),
     SetTimeoutCall(Identifier("h"), 0) >>

\* the same with queueMicrotask(h) for setTimeout(h, 0)
MicrotaskChain(n) ==
  << VariableDeclaration("let", "x", Literal(Num(0))),
     ChainDeclaration(n, QueueMicrotaskCall(Identifier("h"))),
     QueueMicrotaskCall(Identifier("h")) >>

ChainPrograms ==
  {TimerChain(n) : n \in ChainLengths} \cup {MicrotaskChain(maxLoops)}

\* the next statement of one of the programs is evaluated
EvaluateChain ==
  \E program \in ChainPrograms :
    /\ Len(body) < Len(program)
    /\ body = SubSeq(program, 1, Len(body))
    /\ Evaluate(program[Len(body) + 1])
    /\ body' = Append(body, program[Len(body) + 1])

NextCeiling ==
  \/ EvaluateChain
  \/ body \in ChainPrograms /\ EndSync /\ body' = body
  \/ LoopIter /\ body' = body
  \/ RunMicrotask /\ body' = body
  \/ RunTask /\ body' = body
  \/ NoTask /\ body' = body
  \/ LoopExit /\ body' = body

InitCeiling == InitWith(DEFAULT_INTERPRETER_CONFIG, TRUE)

SpecCeiling == InitCeiling /\ [][NextCeiling]_vars

----------------------------------------------------------------------------
(* interpret() called again on an interpreter that has run a program.       *)

\* ASTInterpreter.reset, with the resets of the context, the simulator and
\* the built-ins it calls; the configuration is the interpreter's
reset(m) ==
  [m EXCEPT !.steps = <<>>, !.stepCount = 0,
            !.loopCounters = [id \in LoopIds |-> 0],
            !.hasReturned = FALSE, !.returnValue = Undef,
            !.scopes = <<Scope("global", 0, 0)>>,
            !.currentScope = GlobalScope, !.lexical = GlobalScope,
            !.closures = <<>>,
            !.callStack = <<>>, !.frames = <<>>,
            !.taskQueue = <<>>, !.microtaskQueue = <<>>,
            !.consoleOutput = <<>>, !.currentTime = 0,
            !.promises = <<>>, !.resolvers = {},
            !.scheduled = <<>>, !.thenCalls = <<>>, !.arrays = <<>>,
            !.combos = <<>>, !.reads = <<>>, !.writes = <<>>,
            !.outcomes = <<>>, !.error = "none",
            !.val = Undef, !.thrown = Undef, !.nesting = 0]

\* interpret() up to the end of evaluateNode(ast), for the program of the
\* given statements, on the interpreter in state m, with r for what
\* Math.random() yields
interpretProgram(m, statements, r) ==
  evaluateStatements(
    [pushToCallStack(reset(m), "global", NoVariables) EXCEPT !.random = r],
    statements)

descriptions(m) == [k \in DOMAIN m.steps |-> m.steps[k].description]

----------------------------------------------------------------------------
(* Programs that declare and call an async function whose body awaits a    *)
(* promise, next to statements that print and that queue a microtask.      *)

MaxAsync == 4

\* async function fn() { await Promise.resolve(); console.log("after await"); }
AsyncDeclaration ==
  AsyncFunctionDeclaration("fn",
    << AwaitStatement(PromiseResolveCall),
       ConsoleLogCall(Literal(V("after await"))) >>)

\* async function fn() { let y = 1; console.log("before");
\*                       await Promise.resolve(); console.log(y); }
AsyncLocalDeclaration ==
  AsyncFunctionDeclaration("fn",
    << VariableDeclaration("let", "y", Literal(Num(1))),
       ConsoleLogCall(Literal(V("before"))),
       AwaitStatement(PromiseResolveCall),
       ConsoleLogCall(Identifier("y")) >>)

\* async function fn() { g(); await Promise.resolve();
\*                       console.log("after await"); }
AsyncCallingDeclaration ==
  AsyncFunctionDeclaration("fn",
    << CallExpression("g"),
       AwaitStatement(PromiseResolveCall),
       ConsoleLogCall(Literal(V("after await"))) >>)

AsyncDeclarations ==
  {AsyncDeclaration, AsyncLocalDeclaration, AsyncCallingDeclaration}

AsyncStatements ==
  AsyncDeclarations \cup
  { ConsoleLogCall(Literal(V("start"))), ConsoleLogCall(Literal(V("end"))),
    ReturningDeclaration, CallExpression("fn"), LoggingMicrotask }

InitAsync == InitWith(DEFAULT_INTERPRETER_CONFIG, FALSE)

NextAsync ==
  \/ \E statement \in AsyncStatements :
       Len(body) < MaxAsync /\ Evaluate(statement)
         /\ body' = Append(body, statement)
  \/ \E statement \in AsyncStatements :
       Len(body) < MaxAsync /\ BreakProgram
         /\ body' = Append(body, statement)
  \/ EndSync /\ body' = body
  \/ LoopIter /\ body' = body
  \/ RunMicrotask /\ body' = body
  \/ NoTask /\ body' = body
  \/ LoopExit /\ body' = body

SpecAsync == InitAsync /\ [][NextAsync]_vars

----------------------------------------------------------------------------
(* Programs over try statements with a finally block, whose try or catch    *)
(* block prints, throws, returns or calls a function that throws, next to   *)
(* then-callbacks that throw; interpreted under the default configuration   *)
(* with the steps kept.  Every finally block prints "cleanup".              *)

\* function fn() { throw "boom"; }
ThrowingDeclaration ==
  FunctionDeclaration("fn", << ThrowStatement(Literal(V("boom"))) >>)

\* console.log("cleanup");
Cleanup == ConsoleLogCall(Literal(V("cleanup")))

\* try { fn(); } catch (y) { console.log(y); } finally { console.log("cleanup"); }
TryCallFinally ==
  TryStatement("catch finally", << CallExpression("fn") >>, "y",
               << ConsoleLogCall(Identifier("y")) >>, << Cleanup >>)

\* try { console.log("try"); } finally { console.log("cleanup"); }
TryPlainFinally ==
  TryStatement("finally", << ConsoleLogCall(Literal(V("try"))) >>, "",
               <<>>, << Cleanup >>)

\* try { throw "boom"; } finally { console.log("cleanup"); }
TryThrowFinally ==
  TryStatement("finally", << ThrowStatement(Literal(V("boom"))) >>, "",
               <<>>, << Cleanup >>)

\* try { throw "boom"; } catch (y) { console.log(y); }
\* finally { console.log("cleanup"); }
TryCatchFinally ==
  TryStatement("catch finally", << ThrowStatement(Literal(V("boom"))) >>, "y",
               << ConsoleLogCall(Identifier("y")) >>, << Cleanup >>)

\* try { throw "boom"; } catch (y) { throw "again"; }
\* finally { console.log("cleanup"); }
CatchThrows ==
  TryStatement("catch finally", << ThrowStatement(Literal(V("boom"))) >>, "y",
               << ThrowStatement(Literal(V("again"))) >>, << Cleanup >>)

\* function h() { try { return 1; } finally { console.log("cleanup"); } }
ReturnInTryDeclaration ==
  FunctionDeclaration("h",
    << TryStatement("finally", << ReturnStatement(Literal(Num(1))) >>, "",
                    <<>>, << Cleanup >>) >>)

\* function g() { try { throw "boom"; } catch (y) { return 2; }
\*                finally { console.log("cleanup"); } }
ReturnInCatchDeclaration ==
  FunctionDeclaration("g",
    << TryStatement("catch finally", << ThrowStatement(Literal(V("boom"))) >>,
                    "y", << ReturnStatement(Literal(Num(2))) >>,
                    << Cleanup >>) >>)

TryStatements ==
  { ThrowingDeclaration, TryCallFinally, TryPlainFinally, TryThrowFinally,
    TryCatchFinally, CatchThrows, ReturnInTryDeclaration,
    ReturnInCatchDeclaration, CallExpression("h"), CallExpression("g") }

InitTry == InitWith(DEFAULT_INTERPRETER_CONFIG, TRUE)

NextTry ==
  \/ \E statement \in TryStatements :
       MoreStmts /\ Evaluate(statement) /\ body' = Append(body, statement)
  \/ MoreStmts /\ PromiseResolve(Undef) /\ body' = body
  \/ MoreStmts /\ \E p \in DOMAIN promises : \E r \in Reasons :
       Then(p, Closure("throw", r, 0), NoClosure) /\ body' = body
  \/ EndSync /\ body' = body
  \/ LoopIter /\ body' = body
  \/ RunMicrotask /\ body' = body
  \/ NoTask /\ body' = body
  \/ LoopExit /\ body' = body

SpecTry == InitTry /\ [][NextTry]_vars

----------------------------------------------------------------------------
(* Programs that declare an async function whose body awaits a promise or   *)
(* a plain value and then prints "after await", and call it; interpreted    *)
(* with the steps kept.  interpret() is one call: once the program has      *)
(* been evaluated the event loop runs on until it ends.                     *)

\* async function fn() { await 1; console.log("after await"); }
AsyncValueDeclaration ==
  AsyncFunctionDeclaration("fn",
    << AwaitStatement(Literal(Num(1))),
       ConsoleLogCall(Literal(V("after await"))) >>)

\* async function fn() { await Promise.resolve(); console.log("after await");
\*                       return 1; }
AsyncReturningDeclaration ==
  AsyncFunctionDeclaration("fn",
    << AwaitStatement(PromiseResolveCall),
       ConsoleLogCall(Literal(V("after await"))),
       ReturnStatement(Literal(Num(1))) >>)

AwaitStatements ==
  { AsyncDeclaration, AsyncValueDeclaration, AsyncReturningDeclaration,
    CallExpression("fn"), ConsoleLogCall(Literal(V("end"))) }

InitAwait == InitWith(DEFAULT_INTERPRETER_CONFIG, TRUE)

\* the steps of interpret() after the statements of the program
RunAwait ==
  /\ EndSync \/ LoopIter \/ RunMicrotask \/ NoTask \/ LoopExit
  /\ body' = body

NextAwait ==
  \/ \E statement \in AwaitStatements :
       MoreStmts /\ Evaluate(statement) /\ body' = Append(body, statement)
  \/ RunAwait

SpecAwait == InitAwait /\ [][NextAwait]_vars /\ WF_vars(RunAwait)

----------------------------------------------------------------------------
(* The Visualizer page: it creates a DynamicExecutionEngine for every code  *)
(* it loads and plays the steps of the engine in engineRef back into the    *)
(* displayed executionState.  A code is known by whether the parser takes   *)
(* it and by the list of steps interpret() returns for it.                  *)

MaxEngines == 2

Code(valid, trace) == [valid |-> valid, steps |-> trace]

Examples == { Code(TRUE, <<"a">>), Code(TRUE, <<"a", "b">>) }

Codes == Examples \cup { Code(FALSE, <<>>) }

\* hasMoreSteps()
hasMoreSteps(e) == e.currentStep < Len(e.steps)

\* DynamicExecutionEngine.reset(): currentStep = 0 and stop()
engineReset(e) == stop([e EXCEPT !.currentStep = 0, !.delivered = <<>>])

\* play(speed, onStep): stop() and a new window interval
play(e, speed) ==
  [stop(e) EXCEPT !.intervalId = speed, !.timers = @ \cup {speed}]

\* the state a step of engine i sets: setExecutionState({...newState, speed})
Display(p, i, e) ==
  [p EXCEPT !.shown = [engine |-> i, step |-> e.currentStep],
            !.isRunning = hasMoreSteps(e),
            !.isPaused = FALSE]

\* loadCode(codeToLoad): a new engine; it becomes engineRef.current and its
\* initial state is displayed if the code loads, else engineRef.current is
\* null and the display is emptied
loadCode(p, code) ==
  IF code.valid
  THEN [p EXCEPT !.engines =
                   Append(@, [NewEngine EXCEPT !.steps = code.steps]),
                 !.engineRef = Len(p.engines) + 1,
                 !.shown = [engine |-> Len(p.engines) + 1, step |-> 0],
                 !.isRunning = FALSE,
                 !.isPaused = FALSE]
  ELSE [p EXCEPT !.engines = Append(@, [NewEngine EXCEPT !.parseErrors = TRUE]),
                 !.engineRef = 0,
                 !.shown = [engine |-> 0, step |-> 0],
                 !.isRunning = FALSE,
                 !.isPaused = FALSE]

MoreEngines == Len(page.engines) < MaxEngines

HandleSelectExample(example) ==
  /\ MoreEngines
  /\ page' = loadCode(page, example)
  /\ UNCHANGED <<interpreterVars, engine>>

\* handleCodeChange: the pending debounce timer is cleared and a new one set
HandleCodeChange(newCode) ==
  /\ MoreEngines
  /\ page' = [page EXCEPT !.debounce = <<newCode>>]
  /\ UNCHANGED <<interpreterVars, engine>>

\* the callback of the debounce timer, 500 ms after the last edit
DebounceFires ==
  /\ page.debounce # <<>>
  /\ MoreEngines
  /\ page' = loadCode([page EXCEPT !.debounce = <<>>], page.debounce[1])
  /\ UNCHANGED <<interpreterVars, engine>>

HandlePlay ==
  /\ page.engineRef # 0
  /\ LET current == page.engines[page.engineRef]
         rewound == IF ~hasMoreSteps(current) THEN engineReset(current)
                    ELSE current
     IN page' = [page EXCEPT !.engines[page.engineRef] =
                               play(rewound, page.speed),
                             !.isRunning = TRUE,
                             !.isPaused = FALSE]
  /\ UNCHANGED <<interpreterVars, engine>>

HandlePause ==
  /\ page.engineRef # 0
  /\ page' = [page EXCEPT !.engines[page.engineRef] = stop(@),
                          !.isPaused = TRUE,
                          !.isRunning = FALSE]
  /\ UNCHANGED <<interpreterVars, engine>>

HandleStep ==
  /\ page.engineRef # 0
  /\ LET e == step(page.engines[page.engineRef])
         p == [page EXCEPT !.engines[page.engineRef] = e]
     IN page' = IF e.result = "state" THEN Display(p, page.engineRef, e)
                ELSE p
  /\ UNCHANGED <<interpreterVars, engine>>

HandleReset ==
  /\ page.engineRef # 0
  /\ page' = [page EXCEPT !.engines[page.engineRef] = engineReset(@),
                          !.shown = [engine |-> page.engineRef, step |-> 0],
                          !.isRunning = FALSE,
                          !.isPaused = FALSE]
  /\ UNCHANGED <<interpreterVars, engine>>

\* handleSpeedChange: a running playback is restarted at the new speed
HandleSpeedChange(speed) ==
  /\ page' = IF page.isRunning /\ ~page.isPaused /\ page.engineRef # 0
             THEN [page EXCEPT !.speed = speed,
                               !.engines[page.engineRef] = play(@, speed)]
             ELSE [page EXCEPT !.speed = speed]
  /\ UNCHANGED <<interpreterVars, engine>>

\* executeStep of engine i, called by a window interval that was not
\* cleared: the step goes to onStep, which sets the displayed state
PlaybackTick(i, timer) ==
  /\ timer \in page.engines[i].timers
  /\ LET e == step(page.engines[i])
     IN page' = IF e.result = "state"
                THEN Display([page EXCEPT !.engines[i] =
                                IF hasMoreSteps(e) THEN e ELSE stop(e)],
                             i, e)
                ELSE [page EXCEPT !.engines[i] = stop(e)]
  /\ UNCHANGED <<interpreterVars, engine>>

NextVisualizer ==
  \/ \E example \in Examples : HandleSelectExample(example)
  \/ \E newCode \in Codes : HandleCodeChange(newCode)
  \/ DebounceFires
  \/ HandlePlay
  \/ HandlePause
  \/ HandleStep
  \/ HandleReset
  \/ \E speed \in Speeds : HandleSpeedChange(speed)
  \/ \E i \in DOMAIN page.engines, timer \in Speeds : PlaybackTick(i, timer)

SpecVisualizer == Init /\ [][NextVisualizer]_vars

----------------------------------------------------------------------------
(* Properties *)

Range(q) == {q[k] : k \in DOMAIN q}

\* C6: a promise leaves the state pending at most once: in every step, a
\* promise that is fulfilled or rejected keeps its state, whichever settle
\* attempts (resolve and reject functions of an executor, resolvePromise,
\* rejectPromise, adoption handlers) the step makes.
C6_SettlesOnce ==
  [][\A i \in DOMAIN promises :
       promises[i].state # "pending" =>
         promises'[i].state = promises[i].state]_vars

\* a resolve function was called, from a timer callback, on a promise that
\* its executor had rejected
C6_Witness ==
  \E id \in Range(executed) :
    /\ scheduled[id].callback.kind = "resolve"
    /\ promises[scheduled[id].callback.tgt].state = "rejected"


Ids(q) == {q[k].id : k \in DOMAIN q}

\* the ids of the microtasks created so far
MicrotaskIds ==
  {id \in DOMAIN scheduled : scheduled[id].type = "microtask"}

\* C1: whenever runEventLoop dequeues a task, the microtask queue is empty
\* and every microtask created so far, those created by callbacks of the
\* same drain included, has been executed.
C1_DrainedBeforeTask ==
  [][Ids(taskQueue) \ Ids(taskQueue') # {} =>
       /\ microtaskQueue = <<>>
       /\ MicrotaskIds \subseteq Range(executed)]_vars

\* a task ran after a microtask that a microtask callback had enqueued
\* while the task was already waiting
C1_Witness ==
  \E a, b, c \in DOMAIN executed :
    /\ a < b /\ b < c
    /\ scheduled[executed[a]].type = "microtask"
    /\ scheduled[executed[a]].callback.kind = "queueMicro"
    /\ scheduled[executed[b]].type = "microtask"
    /\ scheduled[executed[b]].source = "queueMicrotask"
    /\ scheduled[executed[c]].type = "task"
    /\ executed[c] < executed[b]

\* the program of catalog example 3 with the labels of the specification:
\* log('a'); setTimeout(() => log('b'), 0);
\* Promise.resolve().then(() => log('c')); log('d');
ExampleBody ==
  << Stmt("console.log", V("a"), NoClosure, 0),
     Stmt("setTimeout", Undef, Closure("log", V("b"), 0), 0),
     Stmt("Promise.resolve", Undef, NoClosure, 0),
     Stmt("then", Undef, Closure("log", V("c"), 0), 1),
     Stmt("console.log", V("d"), NoClosure, 0) >>

\* C2: no queued callback runs while the synchronous body is being
\* evaluated, a microtask that runs after a task callback was created after
\* that task, and the example program prints a, d, c, b.
C2_SyncThenMicroThenTask ==
  /\ pc = "sync" => executed = <<>>
  /\ \A k \in DOMAIN executed :
       scheduled[executed[k]].type = "task" =>
         \A j \in DOMAIN executed :
           (j > k /\ scheduled[executed[j]].type = "microtask") =>
             executed[j] > executed[k]
  /\ (pc = "done" /\ body = ExampleBody) =>
       consoleOutput = <<"a", "d", "c", "b">>

\* the example program has run to completion
C2_Witness == pc = "done" /\ body = ExampleBody

\* C3: the task queue is sorted by ascending createdAt + delay, tasks with
\* the same due time in the order in which they were scheduled; so its head,
\* which popTask returns, is the earliest due and among those the first
\* scheduled.
C3_TaskQueueSorted ==
  \A i, j \in DOMAIN taskQueue :
    i < j =>
      \/ taskQueue[i].createdAt + taskQueue[i].delay
           < taskQueue[j].createdAt + taskQueue[j].delay
      \/ /\ taskQueue[i].createdAt + taskQueue[i].delay
              = taskQueue[j].createdAt + taskQueue[j].delay
         /\ taskQueue[i].id < taskQueue[j].id

\* a task has run before one scheduled earlier (the sort moved it to the
\* front), and the queue holds two tasks with the same due time created at
\* different times
C3_Witness ==
  /\ \E a, b \in DOMAIN executed :
       /\ a < b /\ executed[a] > executed[b]
       /\ scheduled[executed[a]].type = "task"
       /\ scheduled[executed[b]].type = "task"
  /\ \E i, j \in DOMAIN taskQueue :
       /\ i < j
       /\ taskQueue[i].createdAt # taskQueue[j].createdAt
       /\ taskQueue[i].createdAt + taskQueue[i].delay
            = taskQueue[j].createdAt + taskQueue[j].delay

\* C4: microtasks run in the order in which they were enqueued, no task or
\* microtask runs twice, and when interpret() completes without error every
\* task and microtask created has run.
C4_FifoExactlyOnce ==
  /\ \A j, k \in DOMAIN executed :
       (/\ j < k
        /\ scheduled[executed[j]].type = "microtask"
        /\ scheduled[executed[k]].type = "microtask")
         => executed[j] < executed[k]
  /\ \A j, k \in DOMAIN executed : j # k => executed[j] # executed[k]
  /\ pc = "done" => Range(executed) = DOMAIN scheduled

\* a completed run in which microtasks of both sources (a promise handler and
\* queueMicrotask) ran, and a microtask whose callback enqueues another
\* microtask ran before a microtask enqueued after it
C4_Witness ==
  /\ pc = "done"
  /\ \E a, b \in Range(executed) :
       /\ scheduled[a].type = "microtask" /\ scheduled[b].type = "microtask"
       /\ scheduled[a].source = "Promise.then"
       /\ scheduled[b].source = "queueMicrotask"
  /\ \E a, b \in DOMAIN executed :
       /\ scheduled[executed[a]].type = "microtask"
       /\ scheduled[executed[b]].type = "microtask"
       /\ scheduled[executed[a]].callback.kind = "queueMicro"
       /\ a < b /\ executed[a] < executed[b]

\* C5: when a then-handler that returns Promise.resolve(x) has run, the
\* promise then() returned is fulfilled with x.
C5_NestedPromiseUnwrapped ==
  \A id \in Range(executed) :
    (/\ scheduled[id].callback.kind \in {"exprResolve", "retResolve"}
     /\ scheduled[id].chainedPromise # 0)
      => /\ promises[scheduled[id].chainedPromise].state = "fulfilled"
         /\ promises[scheduled[id].chainedPromise].value
              = scheduled[id].callback.val

\* the promises that adopted promise v: resolvePromise(p, v) found v pending
Adopters(v) ==
  {promises[v].onFulfilled[k].chainedPromise :
     k \in {j \in DOMAIN promises[v].onFulfilled :
              promises[v].onFulfilled[j].internalHandler = "unwrap"}}

\* C7: a promise p resolved with a pending promise v is pending as long as
\* v is, fulfilled with v's value once v is fulfilled and rejected with v's
\* reason once v is rejected.
C7_AdoptionFollowsInner ==
  \A v \in DOMAIN promises :
    \A p \in Adopters(v) :
      /\ promises[v].state = "pending" => promises[p].state = "pending"
      /\ promises[v].state = "fulfilled" =>
           /\ promises[p].state = "fulfilled"
           /\ promises[p].value = promises[v].value
      /\ promises[v].state = "rejected" =>
           /\ promises[p].state = "rejected"
           /\ promises[p].reason = promises[v].reason

\* the microtasks created for the handlers of the then()/catch() call c
HandlerMicrotasks(c) ==
  {id \in MicrotaskIds : scheduled[id].chainedPromise = c.result}

\* the handler of call c that matches the state of its source promise
MatchingHandler(c) ==
  CASE promises[c.src].state = "fulfilled" -> c.onFulfilled
    [] promises[c.src].state = "rejected" -> c.onRejected
    [] OTHER -> NoClosure

\* C8: for every then()/catch() call, no microtask exists for its handlers
\* while the source promise is pending or has settled the way the call has
\* no handler for, and exactly one, carrying the matching handler, once the
\* source is settled the matching way; a callback runs only in the step
\* that dequeues it.
C8_OneMicrotaskPerHandler ==
  /\ [](\A k \in DOMAIN thenCalls :
          LET c == thenCalls[k]
          IN /\ Cardinality(HandlerMicrotasks(c))
                  = IF MatchingHandler(c).kind = "none" THEN 0 ELSE 1
             /\ \A id \in HandlerMicrotasks(c) :
                  scheduled[id].callback = MatchingHandler(c))
  /\ [][\A id \in Range(executed') \ Range(executed) :
          id \in (Ids(microtaskQueue) \cup Ids(taskQueue))]_vars

\* handlers were registered on a pending promise, nothing was enqueued for
\* them, and the promise then settled and one microtask per handler was
\* enqueued; another handler was attached to a settled promise
C8_Witness ==
  /\ \E k \in DOMAIN thenCalls :
       /\ \E j \in DOMAIN promises[thenCalls[k].src].onFulfilled :
            promises[thenCalls[k].src].onFulfilled[j].chainedPromise
              = thenCalls[k].result
       /\ promises[thenCalls[k].src].state = "fulfilled"
       /\ Cardinality(HandlerMicrotasks(thenCalls[k])) = 1
  /\ \E k \in DOMAIN thenCalls :
       /\ \A j \in DOMAIN promises[thenCalls[k].src].onRejected :
            promises[thenCalls[k].src].onRejected[j].chainedPromise
              # thenCalls[k].result
       /\ promises[thenCalls[k].src].state = "rejected"
       /\ Cardinality(HandlerMicrotasks(thenCalls[k])) = 1

\* C9: at the end of the run, the promise returned by a then()/catch() call
\* that supplied no handler for the way its source settled has the
\* settlement of the source.
C9_SettlementPassesThrough ==
  pc = "done" =>
    \A k \in DOMAIN thenCalls :
      LET c == thenCalls[k]
      IN /\ (promises[c.src].state = "fulfilled" /\ c.onFulfilled.kind = "none")
              => /\ promises[c.result].state = "fulfilled"
                 /\ promises[c.result].value = promises[c.src].value
         /\ (promises[c.src].state = "rejected" /\ c.onRejected.kind = "none")
              => /\ promises[c.result].state = "rejected"
                 /\ promises[c.result].reason = promises[c.src].reason

\* C10: for every rejection handler registered on a promise that is
\* rejected, a microtask exists that carries the handler and the reason the
\* promise was rejected with, and it has run when the run is complete.
C10_RejectionHandlerGetsReason ==
  \A k \in DOMAIN thenCalls :
    LET c == thenCalls[k]
    IN (promises[c.src].state = "rejected" /\ c.onRejected.kind # "none")
         => \E id \in HandlerMicrotasks(c) :
              /\ scheduled[id].callback = c.onRejected
              /\ scheduled[id].resolvedValue = promises[c.src].reason
              /\ pc = "done" => id \in Range(executed)

\* the value an item of a combinator was fulfilled with (a plain value
\* counts as itself)
FulfilmentValue(item) ==
  IF isSimulatedPromise(item) THEN promises[item.i].fulfilledWith ELSE item

AllFulfilled(items) == \A i \in DOMAIN items : itemState(Machine, items[i]) = "fulfilled"

\* C11: the promise of a Promise.all call is fulfilled as soon as all its
\* items are, and then its value is an array whose i-th element is the value
\* items[i] was fulfilled with.
C11_AllPreservesInputOrder ==
  \A c \in DOMAIN combos :
    combos[c].kind = "all" =>
      LET r == promises[combos[c].result]
          items == combos[c].items
      IN /\ AllFulfilled(items) => r.state = "fulfilled"
         /\ r.state = "fulfilled" =>
              /\ r.value.k = "a"
              /\ arrays[r.value.i]
                   = [i \in DOMAIN items |-> FulfilmentValue(items[i])]

\* C12: when the run has ended and an item of a Promise.all call is
\* rejected, the promise of the call is rejected with the reason of a
\* rejected item.
C12_AllRejectsWithFirstRejection ==
  \A c \in DOMAIN combos :
    (/\ combos[c].kind = "all"
     /\ pc \in {"done", "error"}
     /\ \E i \in DOMAIN combos[c].items :
          itemState(Machine, combos[c].items[i]) = "rejected")
      => /\ promises[combos[c].result].state = "rejected"
         /\ \E i \in DOMAIN combos[c].items :
              /\ itemState(Machine, combos[c].items[i]) = "rejected"
              /\ promises[combos[c].result].reason
                   = promises[combos[c].items[i].i].reason

\* C13: the promise of a Promise.race call that had a fulfilled item when it
\* was made is pending as long as the synchronous body runs, and at the end
\* of the run it is fulfilled with the value of an item that was fulfilled
\* at the call.
C13_RaceSettlesAfterOneMicrotask ==
  \A c \in DOMAIN combos :
    (/\ combos[c].kind = "race"
     /\ \E i \in DOMAIN combos[c].items : combos[c].atCall[i] = "fulfilled")
      => /\ pc = "sync" => promises[combos[c].result].state = "pending"
         /\ pc = "done" =>
              /\ promises[combos[c].result].state = "fulfilled"
              /\ \E i \in DOMAIN combos[c].items :
                   /\ combos[c].atCall[i] = "fulfilled"
                   /\ promises[combos[c].result].value
                        = FulfilmentValue(combos[c].items[i])

\* the closure example of the example programs:
\* function outer() { let x = 1; return function() { x++; console.log(x); } }
\* const fn = outer(); fn(); fn();
ClosureExample ==
  << OuterDeclaration,
     VariableDeclaration("const", "fn", CallExpression("outer")),
     CallExpression("fn"),
     CallExpression("fn") >>

\* C14: a function value keeps the bindings of the scope it was created in
\* after the creating call has returned: the closure example, run to
\* completion, has printed 2 and then 3.
C14_ClosureKeepsBindings ==
  (pc = "done" /\ body = ClosureExample) => consoleOutput = <<"2", "3">>

\* C16: a return statement ends the rest of the invocation it is in, even
\* from inside nested blocks, and only that invocation: nothing written
\* after the return in the function's body runs, and no statement of the
\* caller that follows the call is left out.
C16_ReturnEndsOnlyItsInvocation ==
  \A k \in DOMAIN outcomes :
    /\ "rest" \notin Range(outcomes[k].logged)
    /\ ~outcomes[k].skipped

\* C15: inside a called function, a free variable is resolved through the
\* scope chain the function was defined in: every lookup of a free name
\* made while a function runs finds the binding that the program text
\* designates (none, if the name is bound only elsewhere).
C15_FreeVariableThroughCapturedChain ==
  \A k \in DOMAIN reads :
    (reads[k].inFunction /\ reads[k].free) =>
      reads[k].found = reads[k].expected

\* C17: every assignment to an initialized const fails with the
\* const-reassignment error, and once const x = 1 has been evaluated in the
\* global scope the global x is the constant 1 for the rest of the run.
C17_ConstNeverChanges ==
  /\ \A k \in DOMAIN writes :
       writes[k].toConst => writes[k].error = "ConstReassignment"
  /\ \A k \in DOMAIN body :
       (body[k] = ConstDeclaration /\ outcomes[k].error = "none") =>
         scopes[GlobalScope].variables["x"] = Binding("const", Num(1), TRUE)

\* C18: in a block that declares x with let or const, reading x before the
\* declaration has been executed fails with the temporal-dead-zone error.
C18_ReadBeforeDeclarationIsDeadZone ==
  \A k \in DOMAIN body :
    body[k] \in {DeadZoneProbe("let"), DeadZoneProbe("const")} =>
      outcomes[k].error = "TDZ"

\* C19: a var declared in a block of a function is readable in the function
\* after the block, and reading it in the function before the declaration
\* has been executed yields undefined, without an error.
C19_VarBindsInFunctionScope ==
  \A k \in DOMAIN body :
    /\ body[k] = VarAfterBlock =>
         outcomes[k].error = "none" /\ outcomes[k].logged = <<"1">>
    /\ body[k] = VarBeforeDeclaration =>
         outcomes[k].error = "none" /\ outcomes[k].logged = <<"undefined">>

\* C20: an assignment to a name bound nowhere on the current scope chain
\* raises no error and leaves an initialized binding holding the value in
\* the global scope, whatever scope was current; a name bound in the global
\* scope is found from every scope.
C20_UnboundAssignmentMakesGlobal ==
  /\ \A k \in DOMAIN writes :
       writes[k].found = 0 =>
         /\ writes[k].error = "none"
         /\ writes[k].global = Binding("var", writes[k].value, TRUE)
  /\ \A name \in Identifiers :
       scopes[GlobalScope].variables[name].kind # "none" =>
         \A scope \in DOMAIN scopes : findBinding(Machine, scope, name) # 0

\* an unbound name was assigned inside a block of a function and was then
\* read, from inside another function, in the global scope
C20_Witness ==
  \E k \in DOMAIN writes :
    /\ writes[k].found = 0
    /\ scopes[writes[k].scope].type = "block"
    /\ writes[k].scope # GlobalScope
    /\ \E j \in DOMAIN reads :
         /\ reads[j].name = writes[k].name
         /\ reads[j].inFunction
         /\ reads[j].found = GlobalScope
         /\ reads[j].error = "none"

\* C30: under every interleaving of step(), timer ticks, play(), stop(),
\* reset() and loads, the steps returned since the last reset or load are
\* steps[0], steps[1], ... in order without a gap, currentStep stays
\* within 0..steps.length, and a step() that returns null changes nothing.
C30_PlaybackInOrder ==
  [][/\ engine'.currentStep \in 0..Len(engine'.steps)
     /\ engine'.delivered = SubSeq(engine'.steps, 1, engine'.currentStep)
     /\ (engine'.result = "null"
           => /\ engine'.steps = engine.steps
              /\ engine'.currentStep = engine.currentStep
              /\ engine'.delivered = engine.delivered)]_vars

\* C21: a loop whose test never becomes false is left, after a bounded
\* number of turns, and what ends it is an error: the ExecutionLimitError
\* of the loop or of the steps, or an error the statements of its body
\* raise themselves; interpret() then returns.
C21_EndlessLoopEndsInLimitError ==
  /\ (pc = "loop") ~> (pc # "loop")
  /\ [][pc = "loop" /\ Endless(body[Len(body)]) /\ pc' # "loop"
          => pc' = "error" /\ runtimeError' # "none"]_vars

\* C22: no recorded step holds a call stack deeper than maxCallStackDepth,
\* and no chain of nested closure invocations goes on past that depth until
\* the stack of the host gives way: a chain that deep has ended in the
\* ExecutionLimitError of the call stack.
C22_DepthWithinLimit ==
  /\ \A k \in DOMAIN steps :
       Len(steps[k].callStack) <= config.maxCallStackDepth
  /\ runtimeError # "RangeError"

\* C23: runEventLoop ends with both queues empty and the final step
\* recorded, or with the ExecutionLimitError of the event loop, and then a
\* callback is still pending: a run whose queues are empty does not end in
\* that error.
C23_CeilingOnlyWhilePending ==
  /\ pc = "done"
       => /\ ~hasPendingTasks(taskQueue, microtaskQueue)
          /\ steps[Len(steps)].description = "done"
  /\ runtimeError = "ExecutionLimit: event loop"
       => hasPendingTasks(taskQueue, microtaskQueue)

\* C24: when a RuntimeError or an ExecutionLimitError is raised, interpret()
\* ends with the steps recorded before the error, unchanged and in order,
\* followed by one terminal step, the only one whose description carries
\* the message of the error; the list is not touched afterwards.
C24_ErrorKeepsStepsAddsTerminal ==
  [][/\ (runtimeError = "none"
           /\ runtimeError' \notin {"none", "Thrown", "RangeError"})
          => LET n == Len(steps')
             IN /\ pc' = "error"
                /\ n > Len(steps)
                /\ SubSeq(steps', 1, Len(steps)) = steps
                /\ steps'[n].description = "error: " \o runtimeError'
                /\ \A k \in 1..(n - 1) :
                     steps'[k].description # steps'[n].description
     /\ pc = "error" => steps' = steps]_vars

C24_Witness ==
  /\ pc = "error"
  /\ runtimeError = "ExecutionLimit: stack"
  /\ Len(steps) > 2
  /\ steps[Len(steps)].description = "error: ExecutionLimit: stack"

\* C25: a value the program throws and no try statement catches, in
\* synchronous code, in a microtask callback without a chained promise or
\* in a task callback, ends interpret() as the other errors do: the last of
\* the steps returned is a terminal step that tells the thrown value.
C25_UncaughtThrowHasTerminalStep ==
  runtimeError = "Thrown"
    => /\ pc = "error"
       /\ steps # <<>>
       /\ steps[Len(steps)].description
            \in {"error: " \o describe(V(s)) : s \in {"boom", "late", "micro"}}

\* C26: a try statement handles only the values the program throws.  A
\* catch block is entered only right after a throw statement, and a try
\* statement in which no value is thrown and whose block raises an
\* ExecutionLimitError or a RuntimeError ends interpret() with that error:
\* its catch block is not entered and prints nothing.
C26_TryCatchesOnlyThrownValues ==
  [][/\ \A k \in DOMAIN steps' :
          steps'[k].description = "catch block"
            => /\ k > 1
               /\ steps'[k - 1].description = "throw " \o describe(V("boom"))
     /\ (/\ body' # body
         /\ body'[Len(body')].op = "TryStatement"
         /\ runtimeError' \notin {"none", "Thrown"}
         /\ \A k \in (Len(steps) + 1)..Len(steps') :
              steps'[k].description # "throw " \o describe(V("boom")))
          => /\ pc' = "error"
             /\ consoleOutput' = consoleOutput
             /\ \A k \in (Len(steps) + 1)..Len(steps') :
                  steps'[k].description # "catch block"]_vars

C26_Witness ==
  /\ pc = "error"
  /\ body # <<>>
  /\ body[Len(body)] = TryCall
  /\ runtimeError = "ExecutionLimit: stack"
  /\ \E k \in DOMAIN steps : steps[k].description = "try block"

\* C27: a recorded step does not change: whatever the interpreter does
\* later, the steps recorded so far keep their call stack, queues, console
\* output and description, and every frame of the call stack of a recorded
\* step still holds the variables it held when the step was recorded.
C27_RecordedStepImmutable ==
  [][/\ Len(steps') >= Len(steps)
     /\ SubSeq(steps', 1, Len(steps)) = steps
     /\ \A k \in DOMAIN steps :
          \A j \in DOMAIN steps[k].callStack :
            frames'[steps[k].callStack[j]].variables = steps[k].frozen[j]]_vars

\* C28: interpreting a program again, on the interpreter that has just
\* run it and whatever the random source yields this time, gives the
\* console output and the step descriptions of the first run (compared
\* when the synchronous part of the program has been evaluated).
C28_SameProgramSameRun ==
  (pc = "sync" /\ ~hasReturned)
    => \A r \in TimerIds :
         LET again == interpretProgram(Machine, body, r)
         IN /\ again.consoleOutput = consoleOutput
            /\ descriptions(again) = descriptions(Machine)

\* C29: a call of an async function runs the statements before its first
\* `await promise;` at once and queues one microtask for the statements
\* after it, and the caller goes on with its own statements; the
\* continuation runs in the event loop, after the synchronous code, and
\* reads the local variables declared before the await.  The catalog
\* program prints start, end, after await.
C29_AwaitSplitsAsyncFunction ==
  [][/\ (/\ pc = "sync" /\ ~hasReturned
         /\ body' = Append(body, CallExpression("fn"))
         /\ \E k \in DOMAIN body : body[k] \in AsyncDeclarations)
          => LET last == CHOOSE k \in DOMAIN body :
                           /\ body[k] \in AsyncDeclarations
                           /\ \A j \in DOMAIN body :
                                body[j] \in AsyncDeclarations => j <= k
                 declaration == body[last]
             IN (declaration = AsyncCallingDeclaration
                   => \E k \in DOMAIN body : body[k] = ReturningDeclaration)
                  => /\ runtimeError' = "none"
                     /\ consoleOutput' =
                          IF declaration = AsyncLocalDeclaration
                          THEN Append(consoleOutput, "before")
                          ELSE consoleOutput
                     /\ Len(microtaskQueue') = Len(microtaskQueue) + 1
                     /\ SubSeq(microtaskQueue', 1, Len(microtaskQueue))
                          = microtaskQueue
                     /\ microtaskQueue'[Len(microtaskQueue')].source
                          = "Promise.then"
                     /\ ~hasReturned'
     /\ (/\ pc = "drain" /\ microtaskQueue # <<>>
         /\ Head(microtaskQueue).source = "Promise.then")
          => /\ microtaskQueue' = Tail(microtaskQueue)
             /\ consoleOutput' =
                  Append(consoleOutput,
                         IF closures[Head(microtaskQueue).callback.val.i]
                              .functionNode.body
                                = << ConsoleLogCall(Identifier("y")) >>
                         THEN "1" ELSE "after await")
     /\ (/\ pc' = "done"
         /\ body' = << ConsoleLogCall(Literal(V("start"))), AsyncDeclaration,
                       CallExpression("fn"),
                       ConsoleLogCall(Literal(V("end"))) >>)
          => consoleOutput' = << "start", "end", "after await" >>]_vars

\* C31: the limit of a loop counts the executions of its body.  A loop is
\* entered with its counter at zero; while it goes on, its body has been
\* executed at most maxLoopIterations times; and the ExecutionLimitError of
\* the loop is raised only when the body would be executed once more, that
\* is when the test of the loop is true: a loop whose body is executed
\* maxLoopIterations times or fewer ends without that error.
C31_LoopLimitCountsBodyExecutions ==
  [][/\ (pc = "sync" /\ pc' = "loop")
          => loopCounters'[body'[Len(body')].name] = 0
     /\ (pc = "loop" /\ pc' = "loop")
          => loopCounters'[body[Len(body)].name] <= config.maxLoopIterations
     /\ (/\ pc = "loop"
         /\ runtimeError' = "ExecutionLimit: loop"
         /\ loopCounters'[body[Len(body)].name] > config.maxLoopIterations)
          => truthy(evaluateNode([Machine EXCEPT !.stepCount = 0],
                                 body[Len(body)].body[1]).val)]_vars

\* the places a call is made from when the program is between two of its
\* statements: the top level, and a block statement that has been entered
CallSites == {Machine, enterScope(Machine, "block")}

\* C32: a call that completes leaves the current scope as it was at the
\* call site.  Whenever the program is between two of its statements, a
\* call of any function it has created so far, made at the top level or
\* inside a block, if it completes (by the end of the body or by a return),
\* ends with the scope of the call site current again.
C32_CallRestoresCurrentScope ==
  (pc = "sync" /\ ~hasReturned)
    => \A c \in DOMAIN closures : \A site \in CallSites :
         LET m == callUserFunction(site, closures[c], "fn")
         IN m.error = "none" => m.currentScope = site.currentScope

\* C33: pushes and pops of the call stack are balanced.  A try statement
\* that has handled, in its catch block, a value thrown in a function it
\* called leaves the call stack as deep as it was before the statement; a
\* then-callback whose throw rejects its chained promise leaves the call
\* stack as deep as it was before the frame of the callback was pushed; and
\* the final step of a run that completes holds an empty call stack.
C33_CallStackBalanced ==
  [][/\ (/\ body' # body
         /\ body'[Len(body')] = TryCallFinally
         /\ runtimeError' = "none"
         /\ \E k \in (Len(steps) + 1)..Len(steps') :
              steps'[k].description = "catch block")
          => Len(callStack') = Len(callStack)
     /\ (/\ pc = "drain" /\ pc' = "drain"
         /\ microtaskQueue # <<>>
         /\ Head(microtaskQueue).chainedPromise # 0
         /\ promises'[Head(microtaskQueue).chainedPromise].state = "rejected")
          => Len(callStack') = Len(callStack)
     /\ pc' = "done" => steps'[Len(steps')].callStack = <<>>]_vars

\* C34: a fulfilled promise keeps the value it was fulfilled with, and the
\* callback of a then() on it is handed that value: every microtask made
\* for a then-callback whose source promise is fulfilled carries the value
\* that promise was fulfilled with.  So a promise resolved with x inside
\* the executor of new Promise delivers x.
C34_FulfilledValueKept ==
  /\ \A p \in DOMAIN promises :
       promises[p].state = "fulfilled"
         => promises[p].value = promises[p].fulfilledWith
  /\ \A id \in DOMAIN scheduled : \A k \in DOMAIN thenCalls :
       (/\ scheduled[id].source = "Promise.then"
        /\ scheduled[id].chainedPromise = thenCalls[k].result
        /\ promises[thenCalls[k].src].state = "fulfilled")
         => scheduled[id].resolvedValue
              = promises[thenCalls[k].src].fulfilledWith

\* the number of elements of the sequence q that are in the set S
RECURSIVE Count(_, _)
Count(q, S) ==
  IF q = <<>> THEN 0
  ELSE (IF Head(q) \in S THEN 1 ELSE 0) + Count(Tail(q), S)

\* C35: the finally block of a try statement is always executed.  Every
\* try statement of the programs has a finally block that prints "cleanup",
\* and no error of the interpreter is raised in them: whenever the program
\* is between two statements, or has ended with an uncaught thrown value,
\* "cleanup" has been printed once for every try statement entered, whether
\* its try block completed, threw, was caught, its catch block threw, or
\* one of the two executed a return.
C35_FinallyAlwaysRuns ==
  runtimeError \in {"none", "Thrown"}
    => Count(consoleOutput, {"cleanup"})
         = Count(descriptions(Machine), {"try block"})

\* the microtasks of q that run the continuation of an async function
Continuations(q) ==
  {k \in DOMAIN q : /\ q[k].callback.kind = "ast"
                    /\ closures[q[k].callback.val.i].resultPromise # 0}

\* C36: the promise an async function call returned is pending as long as
\* a continuation of the function waits in the microtask queue, and when
\* the continuation has run to the end of the body it is fulfilled with
\* the value the function returned (undefined without a return statement).
C36_AsyncResultSettlesAtEnd ==
  [][/\ \A k \in Continuations(microtaskQueue) :
          promises[closures[microtaskQueue[k].callback.val.i].resultPromise]
            .state = "pending"
     /\ (/\ pc = "drain"
         /\ 1 \in Continuations(microtaskQueue)
         /\ runtimeError' = "none")
          => LET result ==
                   closures[microtaskQueue[1].callback.val.i].resultPromise
             IN /\ promises'[result].state = "fulfilled"
                /\ promises'[result].value = returnValue']_vars

\* C37: the statements that follow an `await v;` in the body of an async
\* function are executed once.  Every await statement of the programs is
\* followed by a statement that prints "after await", and v is a plain
\* value or a fulfilled promise: "after await" is never printed more often
\* than an await statement has been executed, and when the n-th await
\* statement has been executed, "after await" is eventually printed for the
\* n-th time, unless the run ends in an error.
C37_AwaitContinuesOnce ==
  /\ [](Count(consoleOutput, {"after await"})
          <= Count(descriptions(Machine), {"await"}))
  /\ \A n \in 1..MaxStmts :
       (Count(descriptions(Machine), {"await"}) >= n)
         ~> (Count(consoleOutput, {"after await"}) >= n \/ pc = "error")

\* C38: the list of steps that interpret() returns never holds more than
\* maxSteps recorded steps and one terminal step for the failure: the count
\* of recorded steps stays within config.maxSteps and the list within
\* config.maxSteps + 1, for every configuration and program.
C38_StepsWithinMaxSteps ==
  /\ stepCount <= config.maxSteps
  /\ Len(steps) <= config.maxSteps + 1

\* C39: an assignment to a variable records an execution step.  Whenever a
\* statement x = v, x += v or x++ of the program has been evaluated and
\* its write went through (setVariable raised nothing), the count of recorded
\* steps has grown.
C39_AssignmentRecordsStep ==
  [][(/\ Len(body') = Len(body) + 1
      /\ body'[Len(body')].op \in {"AssignmentExpression", "UpdateExpression"}
      /\ Len(writes') > Len(writes)
      /\ writes'[Len(writes')].error = "none")
     => stepCount' > stepCount]_vars

\* C40: at most one playback timer is active across the engines the
\* Visualizer has created, and no step of a program loaded earlier reaches
\* the displayed state: only the engine in engineRef has a window interval,
\* it has at most one, and the displayed state was taken from that engine
\* (from no engine when the code loaded last was rejected).
C40_OnePlaybackTimer ==
  /\ \A i \in DOMAIN page.engines :
       /\ Cardinality(page.engines[i].timers) <= 1
       /\ i # page.engineRef => page.engines[i].timers = {}
  /\ page.shown.engine = page.engineRef

====
